---- MODULE Spec2Model ----
(***************************************************************************)
(* The itinerary-to-map reconciliation engine of src/shared/MapView.jsx:   *)
(* name normalisation and matching, day assignment, the boundary/range     *)
(* filter, per-day route composition and the render / snapshot life cycle  *)
(* of the MapView component.                                               *)
(*                                                                         *)
(* Names are sequences of one-character strings.  Coordinates are integers *)
(* in units of 1e-7 degree (the resolution of the geocoding backends), so  *)
(* that toFixed(5) and toFixed(6) are roundings that can merge values.     *)
(* A character the lexer does not take in a string is written as its code   *)
(* point, "U+FF0C".                                                        *)
(***************************************************************************)
EXTENDS Integers, Sequences, FiniteSets, TLC

VARIABLES
  \* ---- one render cycle: displayPlacesAndRoute, lines 1225-1700 ----
  places,          \* props.places: the input place list
  routeSequence,   \* props.routeSequence: day-ordered lists of names
  destination,     \* props.destination is a non-empty string
  cfgRadiusKm,     \* cfg.map.destinationRadiusKm (Undefined when not a number)
  pc,              \* position of the render cycle
  placeCoords,     \* the local placeCoords
  destCenter,      \* the local destCenter (Undefined until located)
  destBoundary,    \* the local destBoundary (NoBoundary when null)
  dedupInput,      \* history: placeCoords as handed to the range filter
  strictOut,       \* history: result of the strict pass
  relaxedOut,      \* history: result of the relaxed pass
  relaxRan,        \* history: the relaxed pass ran
  fallbackRan,     \* history: the unfiltered fallback ran
  \* ---- computePlaceDayIndexMap, lines 388-486 ----
  keyToDay,        \* the Map keyToDay: CompositeKey -> day index
  assignedIndex,   \* the Set assignedIndex of consumed place positions
  seqDay,          \* dayIndex of the sequence walk (line 430)
  seqPos,          \* position of targetName in the day's list (line 432)
  setLog,          \* history: the keyToDay.set calls, <<key, dayIndex>>
  consumedLog,     \* history: <<dayIndex, position, place>> per consumed place
  \* ---- per-day routes, lines 1408-1679 ----
  routeDay,        \* dayIndex of the route loop (line 1410)
  dayUsedLog,      \* history: per routed day, the places its slots used
  augmentLog,      \* history: what geocodeWithAugment gave for each place (line 1245)
  snapshotPolylines, \* the local snapshotPolylines
  snapshotPlaces,  \* the local snapshotPlaces (line 1328)
  markersDrawn,    \* history: the markers the cycle put on the map
  polylinesDrawn,  \* history: the polylines the cycle put on the map
  restoredMarkers, \* history: the markers restoreSnapshot put on the map
  restoredPolylines, \* history: the polylines restoreSnapshot put on the map
  \* ---- the MapView component: props, state, refs, lines 14-63, 880-1703 ----
  routeStrategy,   \* props.routeStrategy
  persistedState,  \* props.persistedState: the caller's mapSnapshot
  initMap,         \* position of initMap (line 892)
  mapReady,        \* the state mapReady
  mapRef,          \* mapRef.current
  markersRef,      \* markersRef.current: <<redraw, k>> per marker
  polylinesRef,    \* polylinesRef.current: <<redraw, k>> per polyline
  restoredSignatureRef, \* restoredSignatureRef.current
  lastSnapshotRef, \* lastSnapshotRef.current
  cycles,          \* the displayPlacesAndRoute calls that have not returned
  lookup,          \* the locateDestination call that is not cancelled
  nextId,          \* the number of the next redraw
  serviceCalls,    \* history: the services called since the mount
  completed,       \* history: the last completed redraw and what it left
  restoreRun,      \* history: the last run of the restore effect
  mountRestored,   \* history: the map became ready on a matching snapshot
  inputsChanged,   \* history: signature or snapshot changed since ready
  persistedBy,     \* history: the cycles that called onStatePersist
  failedBy,        \* history: the cycles that ended in the catch of line 1696
  staleLookups,    \* the locateDestination calls cancelled before they returned
  lookupLog,       \* history: the locateDestination calls that have returned
  \* ---- pMap, lines 1165-1200 ----
  poolPc,          \* position of the pMap call
  results,         \* the array results
  inFlight,        \* the local inFlight
  index,           \* the local index
  resolved,        \* the local resolved
  running,         \* the mapper calls that have not settled
  mapperCalls,     \* per place, how often the mapper was called for it
  settleCalls,     \* per place, how often its call settled
  resolveCalls,    \* how often resolve(results) was called
  \* one call of geocodeWithAugment (lines 489-514)
  geoPc,           \* "idle", "waiting" for geocode(q), "returned" or "failed"
  geoPlace,        \* the argument place
  destinationCtx,  \* the argument destinationCtx
  unique,          \* the local unique
  queryLog,        \* the queries handed to geocode, in call order
  answerLog,       \* what geocode answered to each of them
  \* one run of the map initialisation effect (lines 880-1061)
  loadPc,          \* "idle", "nokey", "sizing", "loading", "ready", "error", "abandoned"
  loadProvider,    \* effectiveProvider
  sdkDefined,      \* the provider's global (window.AMap.Map, ...) is defined
  scriptTag,       \* the script tag: "none", "existing", "requested", "loaded", "failed"
  promise,         \* the promise of loadMapScript: "none", "pending", "resolved", "rejected"
  polling,         \* checkInterval is set
  timerArmed,      \* the setTimeout of the poll has not fired
  elapsed,         \* milliseconds since the poll started
  isMounted,       \* the local isMounted of the effect
  cleanedBy,       \* why the effect was cleaned up: "none", "unmount", "deps"
  mapOwner,        \* whose instance mapRef.current holds: "none", "this", "next"
  readyBy,         \* whose setMapReady(true) is in force: "none", "this", "next"
  successor,       \* the attempt of the effect's next run: "none", "loading", "ready"
  \* normalizeName applied to a name and to its own result (lines 334-348)
  normPc,          \* "input", "once", "twice"
  nameIn,          \* the argument name
  normOnce,        \* normalizeName(name)
  normTwice,       \* normalizeName(normalizeName(name))
  \* a function of the module applied to arguments of its own
  fnPc,            \* "args", "applied", "reapplied"
  fnArgs,          \* the arguments
  fnResult,        \* what the function returned for them
  fnAgain,         \* what it returned when it was applied again
  \* addMarkersInBatches (lines 1203-1223)
  batchPc,         \* "idle", "batch", "awaiting", "done"
  batchCoords,     \* coords
  batchI,          \* i, the start of the current batch
  batchJ,          \* how many coordinates of the current batch are done
  madeMarkers,     \* the coordinates makeMarker was called for, in call order
  sinceYield,      \* markers made since control was last given up
  percent,         \* progress.percent
  \* the progress reports of one render cycle
  phase,           \* the phase the cycle is in, "idle" outside a cycle
  geoTotal,        \* places.length
  geoDone,         \* the done of onProgress
  hasDestination,  \* whether destination is given
  nDays,           \* routeSequence.length
  dayIdx           \* dayIndex of the per-day loop

renderVars == <<places, routeSequence, destination, cfgRadiusKm, pc, placeCoords,
                destCenter, destBoundary, dedupInput, strictOut, relaxedOut,
                relaxRan, fallbackRan>>

dayVars == <<keyToDay, assignedIndex, seqDay, seqPos, setLog, consumedLog>>

routeVars == <<routeDay, dayUsedLog, snapshotPolylines>>

drawVars == <<snapshotPlaces, markersDrawn, polylinesDrawn, restoredMarkers,
              restoredPolylines>>

renderVarsButPc == <<places, routeSequence, destination, cfgRadiusKm, placeCoords,
                     destCenter, destBoundary, dedupInput, strictOut, relaxedOut,
                     relaxRan, fallbackRan>>

componentVars == <<routeStrategy, persistedState, initMap, mapReady, mapRef,
                   markersRef, polylinesRef, restoredSignatureRef, lastSnapshotRef,
                   cycles, lookup, nextId, serviceCalls, completed, restoreRun,
                   mountRestored, inputsChanged, persistedBy, failedBy,
                   staleLookups, lookupLog>>

poolVars == <<poolPc, results, inFlight, index, resolved, running,
              mapperCalls, settleCalls, resolveCalls>>

geoVars == <<geoPc, geoPlace, destinationCtx, unique, queryLog, answerLog>>

loadVars == <<loadPc, loadProvider, sdkDefined, scriptTag, promise, polling,
              timerArmed, elapsed, isMounted, cleanedBy, mapOwner, readyBy, successor>>

normVars == <<normPc, nameIn, normOnce, normTwice>>

fnVars == <<fnPc, fnArgs, fnResult, fnAgain>>

batchVars == <<batchPc, batchCoords, batchI, batchJ, madeMarkers, sinceYield, percent>>

progVars == <<phase, geoTotal, geoDone, hasDestination, nDays, dayIdx>>

\* the variables of the parts modelled on their own
auxVars == <<poolVars, geoVars, loadVars, normVars, fnVars, batchVars, progVars>>

\* the variables of the render cycle and of the component
coreVars == <<renderVars, augmentLog, dayVars, routeVars, drawVars, componentVars>>

vars == <<coreVars, auxVars>>

(***************************************************************************)
(* Values                                                                  *)
(***************************************************************************)
\* a missing number: typeof v !== 'number'
Undefined == 0 - 1

IsNumber(v) == v # Undefined

Abs(x) == IF x < 0 THEN 0 - x ELSE x

Min(S) == CHOOSE x \in S : \A y \in S : x <= y

Max(S) == CHOOSE x \in S : \A y \in S : x >= y

\* Number.prototype.toFixed(5) of a coordinate given in 1e-7 degree
Fixed5(x) == (x + 50) \div 100

\* Number.prototype.toFixed(6) of a coordinate given in 1e-7 degree
Fixed6(x) == (x + 5) \div 10

(***************************************************************************)
(* Name Normalizer & Matcher                                               *)
(***************************************************************************)
UpperChars == <<"A","B","C","D","E","F","G","H","I","J","K","L","M",
                "N","O","P","Q","R","S","T","U","V","W","X","Y","Z">>

LowerChars == <<"a","b","c","d","e","f","g","h","i","j","k","l","m",
                "n","o","p","q","r","s","t","u","v","w","x","y","z">>

toLowerCase(s) ==
  [i \in 1..Len(s) |->
     IF \E k \in 1..Len(UpperChars) : UpperChars[k] = s[i]
     THEN LowerChars[CHOOSE k \in 1..Len(UpperChars) : UpperChars[k] = s[i]]
     ELSE s[i]]

\* \s
WhiteChars == {" ", "\t", "\n", "U+3000"}

\* the character class of line 342
PunctChars == {"U+00B7", ".", "-", "_", ",", "U+FF0C", "U+3002", "U+FF1B", ";", "U+FF1A", ":",
               "U+FF01", "!", "U+FF1F", "?", "/", "\\"} \cup WhiteChars

\* the generic suffixes of line 337, in order
suffixes == << <<"U+666F","U+70B9">>, <<"U+666F","U+533A">>, <<"U+516C","U+56ED">>, <<"U+535A","U+7269","U+9986">>,
               <<"U+7EAA","U+5FF5","U+9986">>, <<"U+5BFA">>, <<"U+5E99">>, <<"U+5854">>, <<"U+5E7F","U+573A">>,
               <<"U+5927","U+8857">>, <<"U+8DEF">>, <<"U+9152","U+5E97">>, <<"U+9910","U+5385">>, <<"U+996D","U+5E97">>,
               <<"U+5E97">>, <<"U+9986">>, <<"U+9662">>, <<"U+697C">>, <<"U+4E2D","U+5FC3">> >>

\* the leading verbs of line 345, in alternation order
prefixWords == << <<"U+524D","U+5F80">>, <<"U+6253","U+5361">>, <<"U+6E38","U+89C8">>, <<"U+53C2","U+89C2">>,
                  <<"U+9014","U+7ECF">>, <<"U+96C6","U+5408","U+4E8E">>, <<"U+62B5","U+8FBE">>, <<"U+5230","U+8FBE">>,
                  <<"U+51FA","U+53D1","U+81F3">>, <<"U+51FA","U+53D1","U+5230">>, <<"U+5165","U+4F4F","U+4E8E">>,
                  <<"U+5165","U+4F4F">>, <<"U+9000","U+623F","U+540E","U+524D","U+5F80">> >>

\* the trailing words of line 346, in alternation order
tailWords == << <<"U+96C6","U+5408">>, <<"U+7ED3","U+675F">>, <<"U+8FD4","U+56DE">>, <<"U+5165","U+4F4F">>,
                <<"U+7528","U+9910">>, <<"U+81EA","U+7531","U+6D3B","U+52A8">>, <<"U+4F11","U+606F">>, <<"U+9152","U+5E97">>,
                <<"U+9752","U+65C5">>, <<"U+65C5","U+9986">>, <<"U+5BBE","U+9986">> >>

StartsWith(s, w) == Len(s) >= Len(w) /\ SubSeq(s, 1, Len(w)) = w

EndsWith(s, w) == Len(s) >= Len(w) /\ SubSeq(s, Len(s) - Len(w) + 1, Len(s)) = w

\* String.prototype.includes
Includes(s, w) ==
  \E i \in 1..(Len(s) - Len(w) + 1) : SubSeq(s, i, i + Len(w) - 1) = w

\* String.prototype.trim
RECURSIVE Trim(_)
Trim(s) ==
  IF s = <<>> THEN s
  ELSE IF s[1] \in WhiteChars THEN Trim(Tail(s))
  ELSE IF s[Len(s)] \in WhiteChars THEN Trim(SubSeq(s, 1, Len(s) - 1))
  ELSE s

\* .replace(/\(.*?\)|\uFF08.*?\uFF09/g, '')
RECURSIVE StripBrackets(_)
StripBrackets(s) ==
  IF s = <<>> THEN s
  ELSE LET close == IF s[1] = "(" THEN ")" ELSE IF s[1] = "U+FF08" THEN "U+FF09" ELSE ""
           js == {j \in 2..Len(s) : s[j] = close}
       IN IF close # "" /\ js # {}
          THEN StripBrackets(SubSeq(s, Min(js) + 1, Len(s)))
          ELSE <<s[1]>> \o StripBrackets(Tail(s))

\* .replace(/[...\s]+/g, '')
StripPunct(s) == SelectSeq(s, LAMBDA c : c \notin PunctChars)

\* .replace(/^(...|...)\s*/, '') of line 345: the first alternative that matches
StripPrefix(s) ==
  LET hits == {k \in 1..Len(prefixWords) : StartsWith(s, prefixWords[k])}
  IN IF hits = {} THEN s
     ELSE SubSeq(s, Len(prefixWords[Min(hits)]) + 1, Len(s))

\* .replace(/\s*(...|...)$/, '') of line 346: the leftmost match that reaches the end
StripTail(s) ==
  LET hits == {k \in 1..Len(tailWords) : EndsWith(s, tailWords[k])}
      longest == Max({Len(tailWords[k]) : k \in hits})
  IN IF hits = {} THEN s ELSE SubSeq(s, 1, Len(s) - longest)

\* acc.replace(new RegExp(suf, 'g'), '')
RECURSIVE RemoveAll(_, _)
RemoveAll(s, w) ==
  IF ~Includes(s, w) THEN s
  ELSE IF SubSeq(s, 1, Len(w)) = w THEN RemoveAll(SubSeq(s, Len(w) + 1, Len(s)), w)
  ELSE <<s[1]>> \o RemoveAll(Tail(s), w)

\* const v = x; return F(v): the value of x, computed once, handed to F
Bind(x, F(_)) == CHOOSE r \in {F(v) : v \in {x}} : TRUE

\* suffixes.reduce(...)
RECURSIVE strip(_, _)
strip(s, k) ==
  IF k > Len(suffixes) THEN s
  ELSE Bind(RemoveAll(s, suffixes[k]), LAMBDA acc : strip(acc, k + 1))

\* the replacements of lines 340-346, in order
normalizeStep(s, k) ==
  CASE k = 1 -> toLowerCase(s)
    [] k = 2 -> StripBrackets(s)
    [] k = 3 -> StripPunct(s)
    [] k = 4 -> Trim(s)
    [] k = 5 -> StripPrefix(s)
    [] k = 6 -> StripTail(s)

RECURSIVE normalizeFrom(_, _)
normalizeFrom(s, k) ==
  IF k > 6 THEN s
  ELSE Bind(normalizeStep(s, k), LAMBDA t : normalizeFrom(t, k + 1))

normalizeName(name) ==
  IF name = <<>> THEN <<>>
  ELSE Bind(normalizeFrom(name, 1), LAMBDA s : strip(s, 1))

\* equality of the trimmed names only
isNameMatch_exact(a, b) ==
  Trim(a) # <<>> /\ Trim(a) = Trim(b)

isNameMatch(a, b) ==
  \E na \in {Trim(a)}, nb \in {Trim(b)} :
    IF na = <<>> \/ nb = <<>> THEN FALSE
    ELSE IF na = nb THEN TRUE
    ELSE IF Includes(na, nb) \/ Includes(nb, na) THEN TRUE
    ELSE \E sa \in {normalizeName(na)}, sb \in {normalizeName(nb)} :
           LET minLen == IF Len(sa) < Len(sb) THEN Len(sa) ELSE Len(sb)
               maxLen == IF Len(sa) < Len(sb) THEN Len(sb) ELSE Len(sa)
           IN IF sa # <<>> /\ sb # <<>>
              THEN \/ sa = sb
                   \/ Includes(sa, sb) \/ Includes(sb, sa)
                   \/ /\ Len(sa) > 2 /\ Len(sb) > 2
                      /\ minLen * 10 >= maxLen * 6
                      /\ IF Len(sa) > Len(sb) THEN Includes(sa, sb) ELSE Includes(sb, sa)
              ELSE FALSE

\* `${normalizeName(name)}|${lng.toFixed(6)}|${lat.toFixed(6)}`
compositeKey(p) ==
  <<normalizeName(p.name),
    IF IsNumber(p.lng) THEN Fixed6(p.lng) ELSE Undefined,
    IF IsNumber(p.lat) THEN Fixed6(p.lat) ELSE Undefined>>

(***************************************************************************)
(* Boundary / range filter                                                 *)
(***************************************************************************)
GridKey(c) == <<Fixed5(c.lng), Fixed5(c.lat)>>

\* every point with numeric coordinates, no cell test
dedupe_numericOnly(coords) ==
  SelectSeq(coords, LAMBDA c : IsNumber(c.lng) /\ IsNumber(c.lat))

\* the first point of every 5-decimal cell, in order of first occurrence
dedupeByCoordGrid(coords) ==
  LET F[i \in 0..Len(coords)] ==
        IF i = 0 THEN <<>>
        ELSE LET c == coords[i]
                 prev == F[i - 1]
             IN IF \/ ~IsNumber(c.lng) \/ ~IsNumber(c.lat)
                   \/ \E j \in 1..Len(prev) : GridKey(prev[j]) = GridKey(c)
                THEN prev
                ELSE Append(prev, c)
  IN F[Len(coords)]

\* ray casting over one ring (a sequence of <<lng, lat>> vertices)
isPointInRing(ptLng, ptLat, ring) ==
  LET n == Len(ring)
      intersect(i) ==
        LET j == IF i = 1 THEN n ELSE i - 1
            xi == ring[i][1]
            yi == ring[i][2]
            xj == ring[j][1]
            yj == ring[j][2]
        IN /\ (yi > ptLat) # (yj > ptLat)
           /\ IF xj = xi THEN ptLng < xi
              ELSE IF yj > yi
                   THEN (ptLng - xi) * (yj - yi) < (xj - xi) * (ptLat - yi)
                   ELSE (ptLng - xi) * (yj - yi) > (xj - xi) * (ptLat - yi)
  IN Cardinality({i \in 1..n : intersect(i)}) % 2 = 1

\* one polygon: inside the outer ring and inside no hole
InPolygonRings(lng, lat, rings) ==
  /\ Len(rings) >= 1
  /\ isPointInRing(lng, lat, rings[1])
  /\ \A h \in 2..Len(rings) : ~isPointInRing(lng, lat, rings[h])

pointInPolygon(lng, lat, geometry) ==
  IF geometry.type = "Polygon" THEN InPolygonRings(lng, lat, geometry.coordinates)
  ELSE IF geometry.type = "MultiPolygon"
       THEN \E k \in 1..Len(geometry.coordinates) :
              InPolygonRings(lng, lat, geometry.coordinates[k])
       ELSE FALSE

\* earth radius, km
R == 6371

\* great-circle distance in whole km; the places of one destination lie on
\* the meridian of its centre to within 1e-5 degree, where the haversine
\* formula is R * |dLat| (radians), pi taken as 355/113
haversineKm(lng1, lat1, lng2, lat2) ==
  ((((Abs(lat2 - lat1) \div 10000) * R) \div 180) * 355) \div 113000

\* line 1277: the default destinationRadiusKm
DefaultRadiusKm == 60

\* lines 1275-1277
radiusKm == IF IsNumber(cfgRadiusKm) THEN Max({1, cfgRadiusKm}) ELSE DefaultRadiusKm

NoBoundary == [geometry |-> [type |-> "none", coordinates |-> <<>>]]

HasGeometry(b) == b.geometry.type # "none"

\* filterOnce with the radius comparison of line 1287 inverted
filterOnce_outside(coords, useBoundary, radius) ==
  SelectSeq(coords, LAMBDA p :
    IF ~IsNumber(p.lng) \/ ~IsNumber(p.lat) THEN FALSE
    ELSE IF useBoundary /\ HasGeometry(destBoundary)
         THEN pointInPolygon(p.lng, p.lat, destBoundary.geometry)
         ELSE haversineKm(p.lng, p.lat, destCenter.lng, destCenter.lat) >= radius)

\* lines 1279-1288; destLoc is destCenter (line 1272)
filterOnce(coords, useBoundary, radius) ==
  SelectSeq(coords, LAMBDA p :
    IF ~IsNumber(p.lng) \/ ~IsNumber(p.lat) THEN FALSE
    ELSE IF useBoundary /\ HasGeometry(destBoundary)
         THEN pointInPolygon(p.lng, p.lat, destBoundary.geometry)
         ELSE haversineKm(p.lng, p.lat, destCenter.lng, destCenter.lat) <= radius)

\* p.lng && p.lat (line 1299): a number other than 0
Truthy(v) == IsNumber(v) /\ v # 0

\* lines 1299-1300: the input places that carry coordinates of their own
unfilteredFallback ==
  dedupeByCoordGrid(SelectSeq(places, LAMBDA p : Truthy(p.lng) /\ Truthy(p.lat)))

(***************************************************************************)
(* The world of the model: one destination centre, sites north of it on    *)
(* its meridian, and the boundary geometries the boundary service may      *)
(* return for it.                                                          *)
(***************************************************************************)
Centre == [lng |-> 1200000000, lat |-> 300000000]

\* about 11 km (twice, one metre apart: one 5-decimal cell), 22 km, 100 km, 200 km
SiteOffsets == <<1000000, 1000003, 2000000, 9000000, 18000000>>

Site(k) == [lng |-> Centre.lng, lat |-> Centre.lat + SiteOffsets[k]]

Sites == {Site(k) : k \in 1..Len(SiteOffsets)}

\* a rectangle as a closed ring around the meridian, from south to north offset
Rect(s, n) == << <<Centre.lng - 1000000, Centre.lat + s>>,
                 <<Centre.lng + 1000000, Centre.lat + s>>,
                 <<Centre.lng + 1000000, Centre.lat + n>>,
                 <<Centre.lng - 1000000, Centre.lat + n>>,
                 <<Centre.lng - 1000000, Centre.lat + s>> >>

\* a city polygon (to 33 km), a province polygon (to 222 km) with a hole
\* around 100 km, and a two-part area: the city and an exclave around 200 km
Boundaries ==
  { NoBoundary,
    [geometry |-> [type |-> "Polygon",
                   coordinates |-> <<Rect(0 - 3000000, 3000000)>>]],
    [geometry |-> [type |-> "Polygon",
                   coordinates |-> <<Rect(0 - 20000000, 20000000),
                                     Rect(8000000, 10000000)>>]],
    [geometry |-> [type |-> "MultiPolygon",
                   coordinates |-> << <<Rect(0 - 3000000, 3000000)>>,
                                      <<Rect(17000000, 19000000)>> >>]] }

\* the result slot of a place whose geocoding failed (pMap stores undefined)
NoResult == [undefined |-> TRUE]

MaxPlaces == 3

SeqsUpTo(S, n) == UNION {[1..k -> S] : k \in 1..n}

(***************************************************************************)
(* One render cycle, phase by phase                                        *)
(***************************************************************************)
\* a mapper that returns only what geocodeWithAugment gave
mapper_augmentOnly(place, answer) ==
  IF answer = NoResult THEN NoResult
  ELSE [place EXCEPT !.lng = answer.lng, !.lat = answer.lat]

\* lines 1240-1250: the mapper of the pool; a place with numeric coordinates
\* is returned as it is, the others with the result of geocodeWithAugment
\* spread over them, or as undefined if geocodeWithAugment throws
mapper(place, answer) ==
  IF IsNumber(place.lng) /\ IsNumber(place.lat) THEN place
  ELSE IF answer = NoResult THEN NoResult
  ELSE [place EXCEPT !.lng = answer.lng, !.lat = answer.lat]

\* lines 1238-1265: geocode every place through the pool, drop the failures,
\* de-duplicate; a place with numeric coordinates is not geocoded
GeocodePhase ==
  /\ pc = "start"
  /\ \E answers \in [1..Len(places) -> Sites \cup {NoResult}] :
       /\ \A i \in 1..Len(places) :
            (IsNumber(places[i].lng) /\ IsNumber(places[i].lat)) => answers[i] = NoResult
       /\ LET geocodeResults == [i \in 1..Len(places) |-> mapper(places[i], answers[i])]
          IN placeCoords' =
               dedupeByCoordGrid(SelectSeq(geocodeResults, LAMBDA r : r # NoResult))
       /\ augmentLog' = answers
  /\ pc' = "geocoded"
  /\ UNCHANGED <<componentVars, auxVars, drawVars, places, routeSequence, destination, cfgRadiusKm, destCenter,
                 destBoundary, dedupInput, strictOut, relaxedOut, relaxRan, fallbackRan,
                 dayVars, routeVars>>

\* line 1268: no destination, no range filter
SkipRangeFilter ==
  /\ pc = "geocoded"
  /\ ~destination
  /\ pc' = "filtered"
  /\ UNCHANGED <<componentVars, auxVars, augmentLog, drawVars, places, routeSequence, destination, cfgRadiusKm, placeCoords,
                 destCenter, destBoundary, dedupInput, strictOut, relaxedOut,
                 relaxRan, fallbackRan, dayVars, routeVars>>

\* lines 1271, 1311-1313: geocode(destination) throws, the filter is skipped
DestinationNotFound ==
  /\ pc = "geocoded"
  /\ destination
  /\ pc' = "filtered"
  /\ UNCHANGED <<componentVars, auxVars, augmentLog, drawVars, places, routeSequence, destination, cfgRadiusKm, placeCoords,
                 destCenter, destBoundary, dedupInput, strictOut, relaxedOut,
                 relaxRan, fallbackRan, dayVars, routeVars>>

\* lines 1271-1274: the centre, and whatever the boundary service returns
DestinationLocated ==
  /\ pc = "geocoded"
  /\ destination
  /\ destCenter' = Centre
  /\ destBoundary' \in Boundaries
  /\ pc' = "located"
  /\ UNCHANGED <<componentVars, auxVars, augmentLog, drawVars, places, routeSequence, destination, cfgRadiusKm, placeCoords,
                 dedupInput, strictOut, relaxedOut, relaxRan, fallbackRan,
                 dayVars, routeVars>>

\* lines 1278-1310: strict pass, relaxed pass, unfiltered fallback
RangeFilter ==
  /\ pc = "located"
  /\ LET before == Len(placeCoords)
         strict == filterOnce(placeCoords, TRUE, radiusKm)
         dropped == before - Len(strict)
         relax == Len(strict) < 2 \/ dropped * 2 > before
         relaxed == filterOnce(strict, FALSE, radiusKm * 2)
         giveUp == relax /\ Len(relaxed) < 2
     IN /\ placeCoords' = IF giveUp THEN unfilteredFallback
                          ELSE IF relax THEN relaxed ELSE strict
        /\ dedupInput' = placeCoords
        /\ strictOut' = strict
        /\ relaxRan' = relax
        /\ relaxedOut' = IF relax THEN relaxed ELSE <<>>
        /\ fallbackRan' = giveUp
  /\ pc' = "filtered"
  /\ UNCHANGED <<componentVars, auxVars, augmentLog, drawVars, places, routeSequence, destination, cfgRadiusKm, destCenter,
                 destBoundary, dayVars, routeVars>>

(***************************************************************************)
(* SpecFilter: render cycles over place lists that exercise the range      *)
(* filter (no day hints, no route sequence)                                *)
(***************************************************************************)
FilterNames == << <<"a">>, <<"b">>, <<"c">>, <<"d">>, <<"e">> >>

\* places with coordinates of their own, one per site, and one without
FilterPlacePool ==
  {[name |-> FilterNames[k], day |-> 0, lng |-> Site(k).lng, lat |-> Site(k).lat] :
     k \in 1..Len(SiteOffsets)}
  \cup {[name |-> <<"q">>, day |-> 0, lng |-> Undefined, lat |-> Undefined]}

\* cfg.map.provider, which is the provider of the map instance
ActiveProvider == "amap"

Providers == {"amap", "osm"}

\* null in restoredSignatureRef.current
NullSignature == [null |-> TRUE]

\* a snapshot without signature, and the stand-in of line 54
MissingSignature == [missing |-> TRUE]

SnapshotSentinel == [sentinel |-> TRUE]

\* persistedState = null
NoSnapshot == [null |-> TRUE]

\* no locateDestination call is awaiting its answer
NoLookup == [id |-> 0]

\* the refs and state of a MapView that has just been mounted (lines 15-22
\* and the first commit, in which every effect returns before the map is ready)
InitMounted ==
  /\ initMap = "loading"
  /\ mapReady = FALSE
  /\ mapRef = "null"
  /\ markersRef = {}
  /\ polylinesRef = {}
  /\ restoredSignatureRef = NullSignature
  /\ lastSnapshotRef = NoSnapshot
  /\ cycles = {}
  /\ lookup = NoLookup
  /\ nextId = 1
  /\ serviceCalls = {}
  /\ completed = [by |-> 0, kind |-> "none", markers |-> {}, polylines |-> {}]
  /\ restoreRun = [outcome |-> "none", matches |-> FALSE, drawn |-> FALSE]
  /\ mountRestored = FALSE
  /\ inputsChanged = FALSE
  /\ persistedBy = {}
  /\ failedBy = {}
  /\ staleLookups = {}
  /\ lookupLog = {}

InitRenderIdle ==
  /\ pc = "start"
  /\ placeCoords = <<>>
  /\ destCenter = [lng |-> Undefined, lat |-> Undefined]
  /\ destBoundary = NoBoundary
  /\ dedupInput = <<>>
  /\ strictOut = <<>>
  /\ relaxedOut = <<>>
  /\ relaxRan = FALSE
  /\ fallbackRan = FALSE
  /\ keyToDay = <<>>
  /\ assignedIndex = {}
  /\ seqDay = 0
  /\ seqPos = 1
  /\ setLog = <<>>
  /\ consumedLog = <<>>
  /\ routeDay = 0
  /\ augmentLog = <<>>
  /\ dayUsedLog = <<>>
  /\ snapshotPolylines = <<>>
  /\ snapshotPlaces = <<>>
  /\ markersDrawn = <<>>
  /\ polylinesDrawn = <<>>
  /\ restoredMarkers = <<>>
  /\ restoredPolylines = <<>>
  /\ poolPc = "idle"
  /\ results = <<>>
  /\ inFlight = 0
  /\ index = 0
  /\ resolved = 0
  /\ running = {}
  /\ mapperCalls = <<>>
  /\ settleCalls = <<>>
  /\ resolveCalls = 0
  /\ geoPc = "idle"
  /\ geoPlace = [address |-> <<>>, name |-> <<>>]
  /\ destinationCtx = <<>>
  /\ unique = <<>>
  /\ queryLog = <<>>
  /\ answerLog = <<>>
  /\ loadPc = "idle"
  /\ loadProvider = ActiveProvider
  /\ sdkDefined = FALSE
  /\ scriptTag = "none"
  /\ promise = "none"
  /\ polling = FALSE
  /\ timerArmed = FALSE
  /\ elapsed = 0
  /\ isMounted = TRUE
  /\ cleanedBy = "none"
  /\ mapOwner = "none"
  /\ readyBy = "none"
  /\ successor = "none"

\* no name is being normalised
InitNormIdle ==
  /\ normPc = "input"
  /\ nameIn = <<>>
  /\ normOnce = <<>>
  /\ normTwice = <<>>

\* no function is being applied on its own
InitFnIdle ==
  /\ fnPc = "args"
  /\ fnArgs = <<>>
  /\ fnResult = <<>>
  /\ fnAgain = <<>>

\* no markers are being drawn in batches
InitBatchIdle ==
  /\ batchPc = "idle"
  /\ batchCoords = <<>>
  /\ batchI = 0
  /\ batchJ = 0
  /\ madeMarkers = <<>>
  /\ sinceYield = 0
  /\ percent = 0

\* no render cycle is reporting progress
InitProgIdle ==
  /\ phase = "idle"
  /\ geoTotal = 0
  /\ geoDone = 0
  /\ hasDestination = FALSE
  /\ nDays = 0
  /\ dayIdx = 0

InitFilter ==
  /\ places \in SeqsUpTo(FilterPlacePool, MaxPlaces)
  /\ routeSequence = <<>>
  /\ destination \in BOOLEAN
  /\ cfgRadiusKm \in {Undefined, 150}
  /\ InitRenderIdle
  /\ InitNormIdle
  /\ InitProgIdle
  /\ InitBatchIdle
  /\ InitFnIdle
  /\ routeStrategy = "driving"
  /\ persistedState = NoSnapshot
  /\ InitMounted

NextFilter ==
  \/ GeocodePhase
  \/ SkipRangeFilter
  \/ DestinationNotFound
  \/ DestinationLocated
  \/ RangeFilter

SpecFilter == InitFilter /\ [][NextFilter]_vars

Range(s) == {s[i] : i \in 1..Len(s)}

WithinKm(coords, km) ==
  SelectSeq(coords, LAMBDA p :
    haversineKm(p.lng, p.lat, destCenter.lng, destCenter.lat) <= km)

\* C1: when fewer than 2 points remain after the relaxed pass, the filter's
\* result is the whole de-duplicated set of geocoded places, so the filter
\* never turns a non-empty set of geocoded places into an empty one.
C1_FallbackIsWholeGeocodedSet ==
  /\ (pc = "filtered" /\ relaxRan /\ Len(relaxedOut) < 2) => placeCoords = dedupInput
  /\ (pc = "filtered" /\ dedupInput # <<>>) => placeCoords # <<>>

\* C2: when the strict pass drops more than half of the points or leaves
\* fewer than 2, the radius-only retry runs at twice the radius over the same
\* de-duplicated input: with no boundary data and radius 60 it keeps exactly
\* the points of that input within 120 of the centre.
C2_RelaxedPassOverSameInput ==
  (/\ pc = "filtered"
   /\ Len(strictOut) < 2 \/ (Len(dedupInput) - Len(strictOut)) * 2 > Len(dedupInput)
   /\ destCenter = Centre
   /\ ~HasGeometry(destBoundary)
   /\ radiusKm = DefaultRadiusKm)
  => /\ relaxRan
     /\ relaxedOut = WithinKm(dedupInput, 2 * DefaultRadiusKm)

\* C3: the outputs of the filter steps are nested, with or without boundary
\* geometry: strict pass within relaxed radius pass within the unfiltered
\* de-duplicated input.
C3_FilterStepsNested ==
  (pc = "filtered" /\ relaxRan)
  => /\ Range(strictOut) \subseteq Range(relaxedOut)
     /\ Range(relaxedOut) \subseteq Range(dedupInput)

\* C3 (amended): every step's output lies within the unfiltered
\* de-duplicated input, and without boundary geometry the strict pass lies
\* within the relaxed radius pass.
C3_NestedWithoutBoundary ==
  (pc = "filtered" /\ relaxRan)
  => /\ Range(strictOut) \subseteq Range(dedupInput)
     /\ Range(relaxedOut) \subseteq Range(dedupInput)
     /\ ~HasGeometry(destBoundary) => Range(strictOut) \subseteq Range(relaxedOut)

\* the relaxed pass ran without boundary geometry over a strict result that
\* kept a point and dropped another
C3_Witness ==
  /\ pc = "filtered"
  /\ relaxRan
  /\ ~HasGeometry(destBoundary)
  /\ strictOut # <<>>
  /\ Len(strictOut) < Len(dedupInput)

(***************************************************************************)
(* Day Assigner: computePlaceDayIndexMap(placeCoords, routeSequence),      *)
(* called at line 1327                                                     *)
(***************************************************************************)
\* typeof p.day === 'number' && p.day > 0 (a place without a hint has day 0)
HasDayHint(p) == p.day > 0

\* keyToDay.set(key, dayIndex)
MapSet(map, key, dayIndex) == (key :> dayIndex) @@ map

\* lines 393-402: every hinted place sets its key, in list order
RECURSIVE explicitDays(_, _, _)
explicitDays(allPlaces, i, acc) ==
  IF i > Len(allPlaces) THEN acc
  ELSE LET p == allPlaces[i]
           key == compositeKey(p)
       IN IF HasDayHint(p)
          THEN explicitDays(allPlaces, i + 1,
                            [map |-> MapSet(acc.map, key, p.day - 1),
                             log |-> Append(acc.log, <<key, p.day - 1>>)])
          ELSE explicitDays(allPlaces, i + 1, acc)

\* lines 437-438: nameToIndices.get(normTarget) without the consumed places
candidates(allPlaces, assigned, normTarget) ==
  {i \in 1..Len(allPlaces) :
     /\ normalizeName(allPlaces[i].name) # <<>>
     /\ normalizeName(allPlaces[i].name) = normTarget
     /\ i \notin assigned}

\* lines 443-454: the first unconsumed place that matches loosely, 0 if none
looseIndex(allPlaces, assigned, targetName) ==
  LET tName == Trim(targetName)
      hit(i) == LET pName == Trim(allPlaces[i].name)
                IN /\ i \notin assigned
                   /\ \/ pName = tName
                      \/ Includes(pName, tName) \/ Includes(tName, pName)
                      \/ isNameMatch(pName, tName)
      hits == {i \in 1..Len(allPlaces) : hit(i)}
  IN IF hits = {} THEN 0 ELSE Min(hits)

\* the first candidate in list order, whatever its name
chosenIndex_first(allPlaces, cands, targetName) == Min(cands)

\* lines 468-473: the candidate whose trimmed name equals the target, else
\* the first of the longest names (Array.prototype.sort is stable)
chosenIndex(allPlaces, cands, targetName) ==
  LET exact == {i \in cands : Trim(allPlaces[i].name) = Trim(targetName)}
      longest == Max({Len(allPlaces[i].name) : i \in cands})
  IN IF exact # {} THEN Min(exact)
     ELSE Min({i \in cands : Len(allPlaces[i].name) = longest})

\* lines 389-427: the hinted places, then the return of line 406 or the set
\* of consumed positions with which the sequence walk starts
AssignExplicitDays ==
  /\ pc = "filtered"
  /\ LET r == explicitDays(placeCoords, 1, [map |-> <<>>, log |-> <<>>])
     IN /\ keyToDay' = r.map
        /\ setLog' = r.log
  /\ IF routeSequence = <<>>
     THEN /\ pc' = "mapped"
          /\ assignedIndex' = {}
     ELSE /\ pc' = "matching"
          /\ assignedIndex' = {i \in 1..Len(placeCoords) : HasDayHint(placeCoords[i])}
  /\ seqDay' = 0
  /\ seqPos' = 1
  /\ UNCHANGED <<componentVars, auxVars, augmentLog, drawVars, renderVarsButPc, consumedLog, routeVars>>

\* lines 432-481: one target name of the current day
MatchTarget ==
  /\ pc = "matching"
  /\ seqDay < Len(routeSequence)
  /\ seqPos <= Len(routeSequence[seqDay + 1])
  /\ \E targetName \in {routeSequence[seqDay + 1][seqPos]} :
       \E normTarget \in {normalizeName(targetName)} :
         \E cands \in {candidates(placeCoords, assignedIndex, normTarget)} :
           \E idx \in {IF normTarget = <<>> THEN 0
                       ELSE IF cands = {}
                            THEN looseIndex(placeCoords, assignedIndex, targetName)
                            ELSE chosenIndex(placeCoords, cands, targetName)} :
             IF idx = 0
             THEN UNCHANGED <<keyToDay, assignedIndex, setLog, consumedLog>>
             ELSE \E key \in {compositeKey(placeCoords[idx])} :
                    /\ assignedIndex' = assignedIndex \cup {idx}
                    /\ consumedLog' = Append(consumedLog, <<seqDay, seqPos, idx>>)
                    /\ IF key \notin DOMAIN keyToDay
                       THEN /\ keyToDay' = MapSet(keyToDay, key, seqDay)
                            /\ setLog' = Append(setLog, <<key, seqDay>>)
                       ELSE UNCHANGED <<keyToDay, setLog>>
  /\ seqPos' = seqPos + 1
  /\ UNCHANGED <<componentVars, auxVars, augmentLog, drawVars, renderVars, seqDay, routeVars>>

\* line 430: the next day of the sequence
NextSequenceDay ==
  /\ pc = "matching"
  /\ seqDay < Len(routeSequence)
  /\ seqPos > Len(routeSequence[seqDay + 1])
  /\ seqDay' = seqDay + 1
  /\ seqPos' = 1
  /\ UNCHANGED <<componentVars, auxVars, augmentLog, drawVars, renderVars, keyToDay, assignedIndex, setLog, consumedLog, routeVars>>

\* lines 484-485: the walk is over
ReturnDayMap ==
  /\ pc = "matching"
  /\ seqDay = Len(routeSequence)
  /\ pc' = "mapped"
  /\ UNCHANGED <<componentVars, auxVars, augmentLog, drawVars, renderVarsButPc, dayVars, routeVars>>

(***************************************************************************)
(* Route composition: one route per day of routeSequence, or one undated   *)
(* route (lines 1408-1679)                                                 *)
(***************************************************************************)
\* lines 1456-1463: an on-demand geocode outside the destination is ignored
outOfBoundary(r) ==
  /\ IsNumber(destCenter.lng)
  /\ IF HasGeometry(destBoundary)
     THEN ~pointInPolygon(r.lng, r.lat, destBoundary.geometry)
     ELSE haversineKm(r.lng, r.lat, destCenter.lng, destCenter.lat) > radiusKm

\* lines 1429-1443: the place a slot of the day resolves to, 0 if none
slotPlace(dayIndex, placeName, used) ==
  LET free == (1..Len(placeCoords)) \ used
      ofDay == {i \in free :
                  LET key == compositeKey(placeCoords[i])
                  IN /\ key \in DOMAIN keyToDay
                     /\ keyToDay[key] = dayIndex
                     /\ isNameMatch(placeCoords[i].name, placeName)}
      loose == {i \in free : isNameMatch(placeCoords[i].name, placeName)}
  IN IF ofDay # {} THEN Min(ofDay) ELSE IF loose # {} THEN Min(loose) ELSE 0

\* lines 1425-1480: the day's coordinates, slot by slot; `from` records the
\* place a coordinate was taken from (0: geocoded on demand), answers[k] is
\* what geocodeWithAugment returns for the k-th name if it is asked
RECURSIVE dayCoordsOf(_, _, _, _, _, _)
dayCoordsOf(dayIndex, dayPlaces, k, used, acc, answers) ==
  IF k > Len(dayPlaces) THEN acc
  ELSE Bind(slotPlace(dayIndex, dayPlaces[k], used), LAMBDA placeIdx :
         LET r == answers[k]
         IN IF placeIdx > 0
            THEN dayCoordsOf(dayIndex, dayPlaces, k + 1, used \cup {placeIdx},
                             Append(acc, [lng |-> placeCoords[placeIdx].lng,
                                          lat |-> placeCoords[placeIdx].lat,
                                          from |-> placeIdx]),
                             answers)
            ELSE IF r = NoResult \/ ~Truthy(r.lng) \/ ~Truthy(r.lat) \/ outOfBoundary(r)
                 THEN dayCoordsOf(dayIndex, dayPlaces, k + 1, used, acc, answers)
                 ELSE dayCoordsOf(dayIndex, dayPlaces, k + 1, used,
                                  Append(acc, [lng |-> r.lng, lat |-> r.lat, from |-> 0]),
                                  answers))

PathOf(coords) == [i \in 1..Len(coords) |-> [lng |-> coords[i].lng, lat |-> coords[i].lat]]

\* lines 65-68
colors == <<"#3388ff", "#ff6600", "#00cc66", "#cc00ff", "#ffcc00", "#ff0066", "#00ccff">>

getRouteColor(dayIndex) == colors[(dayIndex % Len(colors)) + 1]

\* lines 71-76
getMarkerStyle(dayIndex) ==
  [color |-> getRouteColor(dayIndex),
   pattern |-> IF dayIndex % 2 = 0 THEN "solid" ELSE "stripe"]

\* lines 206-209 and 1356: the style of a marker without a day
markerStyle(dayIndex) ==
  IF IsNumber(dayIndex) THEN getMarkerStyle(dayIndex)
  ELSE [color |-> "#999999", pattern |-> "solid"]

\* lines 1331-1336: the day of a rendered place, Undefined for null
snapshotDayIndex(coord) ==
  LET key == compositeKey(coord)
  IN IF key \in DOMAIN keyToDay THEN keyToDay[key]
     ELSE IF HasDayHint(coord) THEN coord.day - 1
     ELSE Undefined

\* lines 1328-1345
snapshotPlaceOf(coord) ==
  [name |-> coord.name, lng |-> coord.lng, lat |-> coord.lat,
   dayIndex |-> snapshotDayIndex(coord)]

\* lines 1349-1400: the marker makeMarker puts on the map
makeMarker(coord) ==
  LET key == compositeKey(coord)
      dayIndex == IF key \in DOMAIN keyToDay THEN keyToDay[key]
                  ELSE IF HasDayHint(coord) THEN coord.day - 1
                  ELSE Undefined
  IN [lng |-> coord.lng, lat |-> coord.lat, dayIndex |-> dayIndex,
      color |-> markerStyle(dayIndex).color, pattern |-> markerStyle(dayIndex).pattern]

\* planRoute finds a route, connects the points itself because the backend
\* search failed (geocode.js lines 451-454, 531-535), returns fewer than 2
\* usable points, or throws
RouteOutcomes == {"route", "straight", "degenerate", "error"}

\* what planRoute returns: a found route is the way points with a bend after
\* the first; <<>> stands for the rejection
planRoute(coords, outcome) ==
  CASE outcome = "route" ->
         <<[lng |-> coords[1].lng, lat |-> coords[1].lat],
           [lng |-> coords[1].lng + 500, lat |-> coords[1].lat + 500]>>
         \o PathOf(Tail(coords))
    [] outcome = "straight" -> PathOf(coords)
    [] outcome = "degenerate" -> <<[lng |-> coords[1].lng, lat |-> Undefined]>>
    [] OTHER -> <<>>

\* lines 104-133: the points with numeric lng and lat
ensureArrayLngLat(path) ==
  SelectSeq(path, LAMBDA point : IsNumber(point.lng) /\ IsNumber(point.lat))

\* lines 1491-1500 and 1587-1598: the try block goes on to draw the route
routed(coords, outcome) ==
  outcome # "error" /\ Len(ensureArrayLngLat(planRoute(coords, outcome))) >= 2

\* lines 1502-1509 and 1541-1551: the snapshot entry of a planned route, or of
\* the straight fallback line when planRoute throws or returns fewer than 2
\* points
dayPolyline(dayIndex, coords, outcome) ==
  IF routed(coords, outcome)
  THEN [path |-> PathOf(ensureArrayLngLat(planRoute(coords, outcome))),
        strokeColor |-> getRouteColor(dayIndex),
        strokeWeight |-> 3, strokeOpacity |-> 80, strokeStyle |-> "solid",
        dayIndex |-> dayIndex]
  ELSE [path |-> PathOf(coords), strokeColor |-> getRouteColor(dayIndex),
        strokeWeight |-> 2, strokeOpacity |-> 60, strokeStyle |-> "solid",
        dayIndex |-> dayIndex]

\* a fallback line drawn like a planned route
dayLine_thick(dayIndex, coords, outcome) ==
  [path |-> PathOf(coords), strokeColor |-> getRouteColor(dayIndex),
   strokeWeight |-> 3, strokeOpacity |-> 80]

\* lines 1511-1539 and 1553-1579: the polyline handed to the map
dayLine(dayIndex, coords, outcome) ==
  IF routed(coords, outcome)
  THEN [path |-> PathOf(ensureArrayLngLat(planRoute(coords, outcome))),
        strokeColor |-> getRouteColor(dayIndex),
        strokeWeight |-> 3, strokeOpacity |-> 80]
  ELSE [path |-> PathOf(coords), strokeColor |-> getRouteColor(dayIndex),
        strokeWeight |-> 2, strokeOpacity |-> 60]

\* lines 1600-1607 and 1642-1649: the snapshot entry of the undated route
undatedPolyline(coords, outcome) ==
  IF routed(coords, outcome)
  THEN [path |-> PathOf(ensureArrayLngLat(planRoute(coords, outcome))),
        strokeColor |-> "#3388ff",
        strokeWeight |-> 3, strokeOpacity |-> 80, strokeStyle |-> "solid",
        dayIndex |-> Undefined]
  ELSE [path |-> PathOf(coords), strokeColor |-> "#3388ff",
        strokeWeight |-> 2, strokeOpacity |-> 60, strokeStyle |-> "solid",
        dayIndex |-> Undefined]

\* lines 1609-1635 and 1650-1678: the undated polyline handed to the map
undatedLine(coords, outcome) ==
  IF routed(coords, outcome)
  THEN [path |-> PathOf(ensureArrayLngLat(planRoute(coords, outcome))),
        strokeColor |-> "#3388ff",
        strokeWeight |-> 3, strokeOpacity |-> 80]
  ELSE [path |-> PathOf(coords), strokeColor |-> "#3388ff",
        strokeWeight |-> 2, strokeOpacity |-> 60]

\* what geocodeWithAugment may answer for a name asked on demand
OnDemandAnswers == {NoResult, [lng |-> Centre.lng, lat |-> Centre.lat + 3000000]}

\* lines 1328-1403: the snapshot places, then one marker per place
DrawMarkers ==
  /\ pc = "mapped"
  /\ snapshotPlaces' = [i \in 1..Len(placeCoords) |-> snapshotPlaceOf(placeCoords[i])]
  /\ markersDrawn' = [i \in 1..Len(placeCoords) |-> makeMarker(placeCoords[i])]
  /\ pc' = "marked"
  /\ UNCHANGED <<componentVars, auxVars, augmentLog, renderVarsButPc, dayVars, routeVars, polylinesDrawn,
                 restoredMarkers, restoredPolylines>>

\* lines 1416-1420: a day with fewer than 2 names has no route
SkipShortDay ==
  /\ pc = "marked"
  /\ routeDay < Len(routeSequence)
  /\ Len(routeSequence[routeDay + 1]) < 2
  /\ routeDay' = routeDay + 1
  /\ dayUsedLog' = Append(dayUsedLog,
                          [dayIndex |-> routeDay, from |-> <<>>, coords |-> <<>>,
                           outcome |-> "short"])
  /\ UNCHANGED <<componentVars, auxVars, augmentLog, drawVars, renderVars, dayVars, snapshotPolylines>>

\* a day that gets a line from a single coordinate
dayHasRoute_one(dayCoords) == Len(dayCoords) >= 1

\* lines 1482-1485: a day with fewer than 2 coordinates is skipped
dayHasRoute(dayCoords) == Len(dayCoords) >= 2

\* lines 1422-1580: the coordinates of the day, then its route
RouteDay ==
  /\ pc = "marked"
  /\ routeDay < Len(routeSequence)
  /\ Len(routeSequence[routeDay + 1]) >= 2
  /\ \E answers \in [1..Len(routeSequence[routeDay + 1]) -> OnDemandAnswers] :
       \E dayCoords \in {dayCoordsOf(routeDay, routeSequence[routeDay + 1], 1, {},
                                     <<>>, answers)} :
         \E outcome \in IF dayHasRoute(dayCoords) THEN RouteOutcomes ELSE {"skipped"} :
           /\ dayUsedLog' = Append(dayUsedLog,
                                   [dayIndex |-> routeDay,
                                    from |-> [i \in 1..Len(dayCoords) |-> dayCoords[i].from],
                                    coords |-> PathOf(dayCoords),
                                    outcome |-> outcome])
           /\ snapshotPolylines' =
                IF outcome = "skipped" THEN snapshotPolylines
                ELSE Append(snapshotPolylines, dayPolyline(routeDay, dayCoords, outcome))
           /\ polylinesDrawn' =
                IF outcome = "skipped" THEN polylinesDrawn
                ELSE Append(polylinesDrawn, dayLine(routeDay, dayCoords, outcome))
  /\ routeDay' = routeDay + 1
  /\ UNCHANGED <<componentVars, auxVars, augmentLog, renderVars, dayVars, snapshotPlaces, markersDrawn,
                 restoredMarkers, restoredPolylines>>

\* lines 1582-1679: no route sequence, one route through all the places
UndatedRoute ==
  /\ pc = "marked"
  /\ routeSequence = <<>>
  /\ Len(placeCoords) >= 2
  /\ \E outcome \in RouteOutcomes :
       /\ snapshotPolylines' =
            Append(snapshotPolylines, undatedPolyline(placeCoords, outcome))
       /\ polylinesDrawn' = Append(polylinesDrawn, undatedLine(placeCoords, outcome))
       /\ dayUsedLog' = Append(dayUsedLog,
                               [dayIndex |-> Undefined,
                                from |-> [i \in 1..Len(placeCoords) |-> i],
                                coords |-> PathOf(placeCoords),
                                outcome |-> outcome])
  /\ pc' = "done"
  /\ UNCHANGED <<componentVars, auxVars, augmentLog, renderVarsButPc, dayVars, routeDay, snapshotPlaces,
                 markersDrawn, restoredMarkers, restoredPolylines>>

\* lines 1681-1695: the cycle completes
FinishRender ==
  /\ pc = "marked"
  /\ IF routeSequence = <<>> THEN Len(placeCoords) < 2 ELSE routeDay = Len(routeSequence)
  /\ pc' = "done"
  /\ UNCHANGED <<componentVars, auxVars, augmentLog, drawVars, renderVarsButPc, dayVars, routeVars>>

\* lines 25-45: the JSON of the trimmed inputs; coordinates are not part of it
inputSignatureOf(dest, ps, rs, strategy) ==
  [destination |-> dest,
   routeStrategy |-> strategy,
   places |-> [i \in 1..Len(ps) |-> [name |-> Trim(ps[i].name), day |-> ps[i].day]],
   routeSequence |-> [d \in 1..Len(rs) |-> [k \in 1..Len(rs[d]) |-> Trim(rs[d][k])]]]

inputSignature == inputSignatureOf(destination, places, routeSequence, routeStrategy)

\* lines 135-152
normalizeSnapshotPlaces(rawPlaces) ==
  LET kept == SelectSeq(rawPlaces, LAMBDA place : IsNumber(place.lng) /\ IsNumber(place.lat))
  IN [i \in 1..Len(kept) |->
        [name |-> kept[i].name, lng |-> kept[i].lng, lat |-> kept[i].lat,
         dayIndex |-> IF IsNumber(kept[i].dayIndex) THEN kept[i].dayIndex ELSE Undefined]]

\* lines 154-171
normalizeSnapshotPolylines(rawPolylines) ==
  LET kept == SelectSeq(rawPolylines, LAMBDA polyline :
                          Len(ensureArrayLngLat(polyline.path)) >= 2)
  IN [i \in 1..Len(kept) |->
        [path |-> PathOf(ensureArrayLngLat(kept[i].path)),
         strokeColor |-> IF kept[i].strokeColor = "" THEN "#3388ff" ELSE kept[i].strokeColor,
         strokeWeight |-> IF IsNumber(kept[i].strokeWeight) THEN kept[i].strokeWeight ELSE 3,
         strokeOpacity |-> IF IsNumber(kept[i].strokeOpacity) THEN kept[i].strokeOpacity ELSE 80,
         strokeStyle |-> IF kept[i].strokeStyle = "dashed" THEN "dashed" ELSE "solid",
         dayIndex |-> IF IsNumber(kept[i].dayIndex) THEN kept[i].dayIndex ELSE Undefined]]

\* lines 716-731: the snapshot persistSnapshot hands to onStatePersist
persistedSnapshot ==
  [provider |-> ActiveProvider,
   places |-> normalizeSnapshotPlaces(snapshotPlaces),
   polylines |-> normalizeSnapshotPolylines(snapshotPolylines),
   signature |-> inputSignatureOf(destination, places, routeSequence, routeStrategy)]

\* a restore that gives every marker the style of a place without a day
restoredMarker_plain(place) ==
  [lng |-> place.lng, lat |-> place.lat, dayIndex |-> Undefined,
   color |-> markerStyle(Undefined).color, pattern |-> markerStyle(Undefined).pattern]

\* lines 670-672 and 202-209: addMarkerToMap(place, place.dayIndex ?? null)
restoredMarker(place) ==
  [lng |-> place.lng, lat |-> place.lat, dayIndex |-> place.dayIndex,
   color |-> markerStyle(place.dayIndex).color,
   pattern |-> markerStyle(place.dayIndex).pattern]

\* lines 674-687 and 278-281: addPolylineToMap(polyline.path, {...})
restoredLine(polyline) ==
  [path |-> ensureArrayLngLat(polyline.path),
   strokeColor |-> polyline.strokeColor,
   strokeWeight |-> polyline.strokeWeight,
   strokeOpacity |-> polyline.strokeOpacity]

\* lines 652-703: a MapView mounted later with the same inputs and provider
\* restores the snapshot the completed cycle persisted
RestoreRendered ==
  /\ pc = "done"
  /\ LET snapshot == persistedSnapshot
         snapshotPlacesIn == normalizeSnapshotPlaces(snapshot.places)
         snapshotPolylinesIn == normalizeSnapshotPolylines(snapshot.polylines)
     IN /\ snapshot.provider = ActiveProvider
        /\ restoredMarkers' =
             [i \in 1..Len(snapshotPlacesIn) |-> restoredMarker(snapshotPlacesIn[i])]
        /\ restoredPolylines' =
             [i \in 1..Len(snapshotPolylinesIn) |-> restoredLine(snapshotPolylinesIn[i])]
  /\ pc' = "restored"
  /\ UNCHANGED <<componentVars, auxVars, augmentLog, renderVarsButPc, dayVars, routeVars, snapshotPlaces,
                 markersDrawn, polylinesDrawn>>

(***************************************************************************)
(* SpecDay: render cycles over hinted and same-named places and route      *)
(* sequences that exercise day assignment (no destination, so no filter)   *)
(***************************************************************************)
Gate == <<"G", "a", "t", "e">>

Hall == <<"H", "a", "l", "l">>

Garden == <<"G", "a", "r", "d", "e", "n">>

TowerA == <<"T", "o", "w", "e", "r", " ", "A">>

\* "Hall" followed by the generic suffix for "park"
HallPark == Hall \o <<"U+516C", "U+56ED">>

\* two points 0.08 m apart on either side of a 5-decimal cell border, which
\* toFixed(6) rounds to the same value, and a point 11 km north of them
DaySiteOffsets == <<1000046, 1000054, 2000000>>

DayPlace(n, d, k) ==
  [name |-> n, day |-> d, lng |-> Centre.lng, lat |-> Centre.lat + DaySiteOffsets[k]]

\* hinted and unhinted places, two of them with one name on either side of
\* the cell border, and a place that has to be geocoded
DayPlacePool ==
  {DayPlace(TowerA, 1, 1), DayPlace(TowerA, 2, 2), DayPlace(TowerA, 0, 3),
   DayPlace(Hall, 0, 3), DayPlace(Hall, 2, 2), DayPlace(HallPark, 0, 1),
   [name |-> Gate, day |-> 0, lng |-> Undefined, lat |-> Undefined]}

RouteSequences ==
  { <<>>,
    << <<Gate, Hall>>, <<Hall, Garden>> >>,
    << <<Hall>>, <<HallPark, TowerA>> >>,
    << <<TowerA, Hall>>, <<>>, <<TowerA, HallPark>> >>,
    << <<Gate, Hall, Garden>> >> }

MaxDayPlaces == 2

InitDay ==
  /\ places \in SeqsUpTo(DayPlacePool, MaxDayPlaces)
  /\ routeSequence \in RouteSequences
  /\ destination = FALSE
  /\ cfgRadiusKm = Undefined
  /\ InitRenderIdle
  /\ InitNormIdle
  /\ InitProgIdle
  /\ InitBatchIdle
  /\ InitFnIdle
  /\ routeStrategy = "driving"
  /\ persistedState = NoSnapshot
  /\ InitMounted

NextDay ==
  \/ GeocodePhase
  \/ SkipRangeFilter
  \/ AssignExplicitDays
  \/ MatchTarget
  \/ NextSequenceDay
  \/ ReturnDayMap
  \/ DrawMarkers
  \/ SkipShortDay
  \/ RouteDay
  \/ UndatedRoute
  \/ FinishRender
  \/ RestoreRendered

SpecDay == InitDay /\ [][NextDay]_vars

\* the render cycles over place lists with a place that has to be geocoded,
\* without a route sequence or with one of a short and a long day
InitDayGeocoding ==
  /\ InitDay
  /\ \E i \in 1..Len(places) : ~IsNumber(places[i].lng)
  /\ routeSequence \in {<<>>, << <<Hall>>, <<HallPark, TowerA>> >>}

\* displayPlacesAndRoute continues whenever the promise it awaits settles
SpecDayLive == InitDayGeocoding /\ [][NextDay]_vars /\ WF_vars(NextDay)

\* the day map has been returned to the render cycle (line 1327)
DayMapReturned == pc \in {"mapped", "marked", "done", "restored"}

\* C4: computePlaceDayIndexMap gives each CompositeKey at most one day index,
\* which is never changed once set, and each geocoded place is consumed by
\* at most one day-sequence slot.
C4_KeySetOnceAndPlaceConsumedOnce ==
  /\ \A i, j \in 1..Len(setLog) :
       setLog[i][1] = setLog[j][1] => setLog[i][2] = setLog[j][2]
  /\ \A i, j \in 1..Len(consumedLog) :
       i # j => consumedLog[i][3] # consumedLog[j][3]

\* C5: every place with an explicit day hint d > 0 is mapped to day index
\* d - 1 under its own CompositeKey, whatever the RouteSequence contains,
\* including two places with one name at distinct coordinates and different
\* day hints.
C5_HintedPlaceKeepsItsDay ==
  DayMapReturned =>
    \A i \in 1..Len(placeCoords) :
      HasDayHint(placeCoords[i]) =>
        /\ compositeKey(placeCoords[i]) \in DOMAIN keyToDay
        /\ keyToDay[compositeKey(placeCoords[i])] = placeCoords[i].day - 1

\* C6: when per-day routes are composed, a geocoded place consumed by one day
\* is not reused for a slot of another day: no place is taken by the routes of
\* two days, nor by the route of a day other than the one whose sequence slot
\* consumed it.
C6_PlaceNotReusedAcrossDays ==
  \A e \in 1..Len(dayUsedLog) :
    \A k \in 1..Len(dayUsedLog[e].from) :
      LET i == dayUsedLog[e].from[k]
      IN i > 0 =>
           /\ \A f \in 1..Len(dayUsedLog) :
                (\E m \in 1..Len(dayUsedLog[f].from) : dayUsedLog[f].from[m] = i)
                  => dayUsedLog[f].dayIndex = dayUsedLog[e].dayIndex
           /\ \A c \in 1..Len(consumedLog) :
                consumedLog[c][3] = i => consumedLog[c][1] = dayUsedLog[e].dayIndex

\* C12: restoring the snapshot a completed render emitted, with unchanged
\* inputs and provider, draws as many markers and as many polylines as the
\* render drew, every marker with the day index, colour and pattern and every
\* polyline with the colour the render gave it.
C12_RestoreReproducesRender ==
  pc = "restored" =>
    /\ Len(restoredMarkers) = Len(markersDrawn)
    /\ Len(restoredPolylines) = Len(polylinesDrawn)
    /\ \A i \in 1..Len(markersDrawn) :
         /\ restoredMarkers[i].dayIndex = markersDrawn[i].dayIndex
         /\ restoredMarkers[i].color = markersDrawn[i].color
         /\ restoredMarkers[i].pattern = markersDrawn[i].pattern
    /\ \A i \in 1..Len(polylinesDrawn) :
         restoredPolylines[i].strokeColor = polylinesDrawn[i].strokeColor

\* a render with markers of two different days and a polyline of the second
\* day has been restored from its snapshot
C12_Witness ==
  /\ pc = "restored"
  /\ \E i, j \in 1..Len(markersDrawn) :
       /\ IsNumber(markersDrawn[i].dayIndex)
       /\ IsNumber(markersDrawn[j].dayIndex)
       /\ markersDrawn[i].color # markersDrawn[j].color
  /\ \E k \in 1..Len(polylinesDrawn) : polylinesDrawn[k].strokeColor = colors[2]

\* a is b with some of its elements left out
RECURSIVE IsSubSeq(_, _)
IsSubSeq(a, b) ==
  IF a = <<>> THEN TRUE
  ELSE IF b = <<>> THEN FALSE
  ELSE IF Head(a) = Head(b) THEN IsSubSeq(Tail(a), Tail(b))
  ELSE IsSubSeq(a, Tail(b))

\* the polylines on the map that belong to day index d
PolylinesOfDay(d) ==
  {k \in 1..Len(polylinesDrawn) :
     /\ k <= Len(snapshotPolylines)
     /\ snapshotPolylines[k].dayIndex = d
     /\ polylinesDrawn[k].strokeColor = getRouteColor(d)}

GeocodeFailed(i) ==
  /\ ~(IsNumber(places[i].lng) /\ IsNumber(places[i].lat))
  /\ augmentLog[i] = NoResult

\* where place i is: its own coordinates, or else the geocoded ones
Located(i) ==
  IF IsNumber(places[i].lng) /\ IsNumber(places[i].lat)
  THEN [lng |-> places[i].lng, lat |-> places[i].lat]
  ELSE [lng |-> augmentLog[i].lng, lat |-> augmentLog[i].lat]

\* the markers are on the map: none of them belongs to a place whose
\* geocoding failed, every other place has a marker in its coordinate cell,
\* and the routes have been composed over the rendered places
FailedPlaceOnlyOmitted ==
  pc \in {"marked", "done", "restored"} =>
    /\ \A k \in 1..Len(markersDrawn) :
         \E i \in 1..Len(places) :
           /\ ~GeocodeFailed(i)
           /\ markersDrawn[k].lng = Located(i).lng
           /\ markersDrawn[k].lat = Located(i).lat
    /\ \A i \in 1..Len(places) :
         ~GeocodeFailed(i) =>
           \E k \in 1..Len(markersDrawn) : GridKey(markersDrawn[k]) = GridKey(Located(i))
    /\ pc # "marked" =>
         IF routeSequence = <<>>
         THEN Len(markersDrawn) >= 2 =>
                /\ Len(polylinesDrawn) = 1
                /\ IsSubSeq(PathOf(markersDrawn), polylinesDrawn[1].path)
         ELSE Len(dayUsedLog) = Len(routeSequence)

SomePlaceFailed == \E i \in 1..Len(places) : GeocodeFailed(i)

PolylineIndex(e) ==
  Cardinality({f \in 1..e : dayUsedLog[f].outcome \in RouteOutcomes})

\* C15: if planRoute fails or returns fewer than 2 usable points for a day,
\* the day's polyline is exactly the day's input coordinates in their
\* original order, drawn with weight 2 and opacity 0.6 instead of the weight
\* 3 and opacity 0.8 of a planned route.
C15_FailedRouteFallsBack ==
  \A e \in 1..Len(dayUsedLog) :
    LET day == dayUsedLog[e]
        k == PolylineIndex(e)
    IN (IsNumber(day.dayIndex) /\ day.outcome \in RouteOutcomes) =>
         /\ k <= Len(polylinesDrawn)
         /\ IF day.outcome \in {"degenerate", "error"}
            THEN /\ polylinesDrawn[k].path = day.coords
                 /\ polylinesDrawn[k].strokeWeight = 2
                 /\ polylinesDrawn[k].strokeOpacity = 60
            ELSE /\ polylinesDrawn[k].strokeWeight = 3
                 /\ polylinesDrawn[k].strokeOpacity = 80

\* planRoute has thrown for a day of 3 coordinates, not all the same, and
\* the fallback line of the day is on the map
C15_Witness ==
  \E e \in 1..Len(dayUsedLog) :
    /\ dayUsedLog[e].outcome = "error"
    /\ IsNumber(dayUsedLog[e].dayIndex)
    /\ Len(dayUsedLog[e].coords) = 3
    /\ dayUsedLog[e].coords[1] # dayUsedLog[e].coords[2]
    /\ polylinesDrawn[PolylineIndex(e)].path = dayUsedLog[e].coords

(***************************************************************************)
(* The MapView component: effects, redraws and the snapshot                *)
(***************************************************************************)
\* the markers or polylines one redraw puts on the map
Drawn(id, n) == {<<id, k>> : k \in 1..n}

\* what the component holds besides its props and state
Refs ==
  [restoredSignatureRef |-> restoredSignatureRef, lastSnapshotRef |-> lastSnapshotRef,
   markersRef |-> markersRef,
   polylinesRef |-> polylinesRef,
   cycles |-> cycles, lookup |-> lookup, staleLookups |-> staleLookups, nextId |-> nextId,
   serviceCalls |-> serviceCalls, completed |-> completed, restoreRun |-> restoreRun]

\* the props and state one commit renders with
Rendered(dest, ps, strategy, snapshot, ready, map) ==
  [destination |-> dest, places |-> ps, routeStrategy |-> strategy,
   persistedState |-> snapshot, mapReady |-> ready, mapRef |-> map,
   inputSignature |-> inputSignatureOf(dest, ps, routeSequence, strategy)]

\* the dependencies that differ from the previous commit
NoDeps ==
  [inputSignature |-> FALSE, persistedState |-> FALSE, mapReady |-> FALSE,
   destination |-> FALSE, places |-> FALSE, routeStrategy |-> FALSE]

\* lines 47-49: a new input signature forgets the restored one
resetEffect(refs, deps) ==
  IF deps.inputSignature THEN [refs EXCEPT !.restoredSignatureRef = NullSignature]
  ELSE refs

\* line 54: persistedState.signature || '__snapshot__'
snapshotSignature(snapshot) ==
  IF snapshot.signature = MissingSignature THEN SnapshotSentinel ELSE snapshot.signature

\* shouldRestore without the test of what is drawn
shouldRestore_whateverIsDrawn(snapshot, signature, noCurrentMarkers) == TRUE

\* lines 56-58: the restore effect goes on to restoreSnapshot
shouldRestore(snapshot, signature, noCurrentMarkers) ==
  LET signatureMatches ==
        snapshot.signature # MissingSignature /\ snapshot.signature = signature
  IN signatureMatches \/ noCurrentMarkers

\* lines 666-703: restoreSnapshot past its provider check
restoreSnapshot(refs, snapshot, signature) ==
  [refs EXCEPT
     !.lastSnapshotRef = [snapshot EXCEPT
                            !.provider = ActiveProvider,
                            !.signature = IF @ = MissingSignature THEN signature ELSE @],
     !.markersRef = Drawn(refs.nextId, snapshot.places),
     !.polylinesRef = Drawn(refs.nextId, snapshot.polylines),
     !.nextId = @ + 1,
     !.completed = [by |-> refs.nextId, kind |-> "restore",
                    markers |-> Drawn(refs.nextId, snapshot.places),
                    polylines |-> Drawn(refs.nextId, snapshot.polylines)]]

\* a provider check that lets every snapshot through
providerMismatch_never(snapshot) == FALSE

\* lines 657-658: snapshot.provider && snapshot.provider !== providerInUse
providerMismatch(snapshot) == snapshot.provider # ActiveProvider

\* lines 652-709: restoreSnapshot as the restore effect calls it (the map
\* exists), with what it returns
restoreSnapshotCall(refs, snapshot, signature) ==
  IF providerMismatch(snapshot)
  THEN [refs |-> refs, returned |-> FALSE]
  ELSE [refs |-> restoreSnapshot(refs, snapshot, signature), returned |-> TRUE]

\* what restoreSnapshot may draw or write
Held(refs) ==
  [markersRef |-> refs.markersRef, polylinesRef |-> refs.polylinesRef,
   lastSnapshotRef |-> refs.lastSnapshotRef,
   restoredSignatureRef |-> refs.restoredSignatureRef]

\* lines 51-63, with the provider check of restoreSnapshot (lines 658-665)
restoreEffect(refs, r, deps) ==
  IF ~(deps.mapReady \/ deps.persistedState \/ deps.inputSignature) THEN refs
  ELSE IF ~r.mapReady \/ r.mapRef = "null" THEN refs
  ELSE IF r.persistedState = NoSnapshot THEN refs
  ELSE LET snapshot == r.persistedState
           noCurrentMarkers == refs.markersRef = {} /\ refs.polylinesRef = {}
           run(outcome) == [outcome |-> outcome,
                            matches |-> snapshot.signature = r.inputSignature,
                            drawn |-> ~noCurrentMarkers]
       IN IF refs.restoredSignatureRef = snapshotSignature(snapshot)
          THEN [refs EXCEPT !.restoreRun = run("already")]
          ELSE IF ~shouldRestore(snapshot, r.inputSignature, noCurrentMarkers)
          THEN [refs EXCEPT !.restoreRun = run("stale")]
          ELSE LET call == restoreSnapshotCall(refs, snapshot, r.inputSignature)
                   after == IF call.returned
                            THEN [call.refs EXCEPT
                                    !.restoredSignatureRef = snapshotSignature(snapshot)]
                            ELSE call.refs
                   called == [returned |-> call.returned,
                              mismatch |-> snapshot.provider # ActiveProvider,
                              before |-> Held(refs),
                              after |-> Held(after)]
               IN [after EXCEPT
                     !.restoreRun = run(IF call.returned THEN "restored" ELSE "provider")
                                    @@ called]

\* lines 1064-1148 up to the await of line 1078: the cleanup of the previous
\* run (lines 1143-1146) cancels its lookup, which stays in flight; then a
\* lookup starts if there are no places
destinationEffect(refs, r, deps) ==
  IF ~(deps.destination \/ deps.places \/ deps.mapReady) THEN refs
  ELSE LET cancelled == [refs EXCEPT
                          !.lookup = NoLookup,
                          !.staleLookups = IF refs.lookup = NoLookup THEN @
                                           ELSE @ \cup {refs.lookup}]
       IN IF ~r.mapReady \/ r.mapRef = "null" \/ r.places # <<>> \/ ~r.destination
          THEN cancelled
          ELSE [cancelled EXCEPT
                  !.lookup = [id |-> refs.nextId, signature |-> r.inputSignature],
                  !.nextId = @ + 1,
                  !.serviceCalls = @ \cup {"geocode"}]

\* a short-circuit that never skips
shortCircuit_never(snapshot, restored, signature) == FALSE

\* lines 1155-1163: the map was restored from the snapshot of these inputs
shortCircuit(snapshot, restored, signature) ==
  /\ snapshot # NoSnapshot
  /\ snapshot.signature # MissingSignature
  /\ restored = snapshot.signature
  /\ snapshot.signature = signature

\* lines 1151-1163, 1702-1703 and displayPlacesAndRoute up to its first
\* await (lines 1225-1262): both collections cleared, geocoding started
displayEffect(refs, r, deps) ==
  IF ~(\/ deps.places \/ deps.routeStrategy \/ deps.mapReady
       \/ deps.persistedState \/ deps.inputSignature) THEN refs
  ELSE IF ~r.mapReady \/ r.mapRef = "null" \/ r.places = <<>> THEN refs
  ELSE IF shortCircuit(r.persistedState, refs.restoredSignatureRef, r.inputSignature)
  THEN refs
  ELSE [refs EXCEPT
          !.markersRef = {},
          !.polylinesRef = {},
          !.cycles = @ \cup {[id |-> refs.nextId, signature |-> r.inputSignature,
                              places |-> Len(r.places), destination |-> r.destination,
                              position |-> "geocoding", found |-> 0,
                              trigger |-> IF \/ deps.places \/ deps.routeStrategy
                                             \/ deps.mapReady \/ deps.inputSignature
                                          THEN "inputs" ELSE "snapshot"]},
          !.nextId = @ + 1,
          !.serviceCalls = @ \cup {"geocode"}]

\* one commit: the effects whose dependencies changed, in declaration order
Commit(refs, r, deps) ==
  Bind(resetEffect(refs, deps), LAMBDA a :
    Bind(restoreEffect(a, r, deps), LAMBDA b :
      Bind(destinationEffect(b, r, deps), LAMBDA c :
        displayEffect(c, r, deps))))

SetRefs(x) ==
  /\ restoredSignatureRef' = x.restoredSignatureRef
  /\ lastSnapshotRef' = x.lastSnapshotRef
  /\ markersRef' = x.markersRef
  /\ polylinesRef' = x.polylinesRef
  /\ cycles' = x.cycles
  /\ lookup' = x.lookup
  /\ staleLookups' = x.staleLookups
  /\ nextId' = x.nextId
  /\ serviceCalls' = x.serviceCalls
  /\ completed' = x.completed
  /\ restoreRun' = x.restoreRun

\* the variables of the render-cycle detail, idle in the component model
pipelineVars == <<routeSequence, cfgRadiusKm, pc, placeCoords, destCenter, destBoundary,
                  dedupInput, strictOut, relaxedOut, relaxRan, fallbackRan,
                  augmentLog, dayVars, routeVars, drawVars, auxVars>>

MaxRedraws == 2

Strategies == {"driving", "walking"}

PlaceA == [name |-> <<"A">>, day |-> 0, lng |-> Undefined, lat |-> Undefined]

PlaceAPadded == [name |-> <<"A", " ">>, day |-> 0, lng |-> Undefined, lat |-> Undefined]

PlaceB == [name |-> <<"B">>, day |-> 0, lng |-> Undefined, lat |-> Undefined]

ComponentPlaceLists == {<<>>, <<PlaceA, PlaceB>>, <<PlaceAPadded, PlaceB>>}

\* lines 1008-1016: initMap ends with the map instance in mapRef and
\* setMapReady(true); the commit that follows runs the effects on mapReady
MapInitDone ==
  /\ initMap = "loading"
  /\ initMap' = "done"
  /\ mapRef' = "map"
  /\ mapReady' = TRUE
  /\ \E after \in {Commit(Refs,
                          Rendered(destination, places, routeStrategy, persistedState,
                                   TRUE, "map"),
                          [NoDeps EXCEPT !.mapReady = TRUE])} :
       /\ after.nextId <= MaxRedraws + 1
       /\ SetRefs(after)
  /\ mountRestored' = /\ persistedState # NoSnapshot
                      /\ persistedState.signature = inputSignature
                      /\ persistedState.provider = ActiveProvider
  /\ inputsChanged' = FALSE
  /\ UNCHANGED <<places, destination, routeStrategy, persistedState, pipelineVars,
                 persistedBy, failedBy, lookupLog>>

\* lines 883-886 and 1018-1021: no key, or initMap throws; setMapReady(false)
MapInitFailed ==
  /\ initMap = "loading"
  /\ initMap' = "failed"
  /\ UNCHANGED <<places, destination, pipelineVars, routeStrategy, persistedState,
                 mapReady, mapRef, markersRef, polylinesRef, restoredSignatureRef, lastSnapshotRef,
                 cycles, lookup, nextId, serviceCalls, completed,
                 restoreRun, mountRestored, inputsChanged, persistedBy, failedBy,
                   staleLookups, lookupLog>>

\* the commit after the caller has rendered MapView with the props dest, ps,
\* strategy and snapshot: the effects whose dependencies changed run
Rerender(dest, ps, strategy, snapshot, fresh) ==
  LET r == Rendered(dest, ps, strategy, snapshot, mapReady, mapRef)
      deps == [inputSignature |-> r.inputSignature # inputSignature,
               persistedState |-> snapshot # persistedState,
               mapReady |-> FALSE,
               destination |-> dest # destination,
               places |-> fresh \/ ps # places,
               routeStrategy |-> strategy # routeStrategy]
  IN /\ destination' = dest
     /\ places' = ps
     /\ routeStrategy' = strategy
     /\ persistedState' = snapshot
     /\ \E after \in {Commit(Refs, r, deps)} :
          /\ after.nextId <= MaxRedraws + 1
          /\ SetRefs(after)
     /\ inputsChanged' = (inputsChanged \/ deps.inputSignature \/ deps.persistedState)
     /\ UNCHANGED <<pipelineVars, initMap, mapReady, mapRef, mountRestored,
                    persistedBy, failedBy, lookupLog>>

\* part_002 line 599: the destination field is edited
SetDestination ==
  \E dest \in {~destination} :
    Rerender(dest, places, routeStrategy, persistedState, FALSE)

\* part_002 lines 112, 299-301, 317-319, 397-399, 706: a new places array,
\* with or without setMapSnapshot(null)
SetPlaces ==
  \E ps \in ComponentPlaceLists, snapshot \in {persistedState, NoSnapshot} :
    Rerender(destination, ps, routeStrategy, snapshot, TRUE)

\* part_002 lines 444-447
handleRouteStrategyChange ==
  \E value \in Strategies \ {routeStrategy} :
    Rerender(destination, places, value, NoSnapshot, FALSE)

\* lines 1238-1314: the geocoding pool returns; with a destination, its
\* centre and boundary are fetched
CycleGeocoded ==
  \E c \in cycles :
    /\ c.position = "geocoding"
    /\ \E found \in 0..c.places :
         cycles' = (cycles \ {c}) \cup {[c EXCEPT !.position = "drawing", !.found = found]}
    /\ serviceCalls' = IF c.destination
                       THEN serviceCalls \cup {"boundary"}
                       ELSE serviceCalls
    /\ UNCHANGED <<places, destination, pipelineVars, routeStrategy, persistedState,
                   initMap, mapReady, mapRef, markersRef, polylinesRef,
                   restoredSignatureRef, lastSnapshotRef, lookup, nextId, completed,
                   restoreRun, mountRestored, inputsChanged, persistedBy, failedBy,
                   staleLookups, lookupLog>>

\* lines 1349-1403 and 1582-1600: the markers are added, then planRoute is
\* called if there are at least 2 coordinates
CycleMarkers ==
  \E c \in cycles :
    /\ c.position = "drawing"
    /\ markersRef' = markersRef \cup Drawn(c.id, c.found)
    /\ cycles' = (cycles \ {c}) \cup {[c EXCEPT !.position = "routing"]}
    /\ serviceCalls' = IF c.found >= 2
                       THEN serviceCalls \cup {"planRoute"}
                       ELSE serviceCalls
    /\ UNCHANGED <<places, destination, pipelineVars, routeStrategy, persistedState,
                   initMap, mapReady, mapRef, polylinesRef, restoredSignatureRef, lastSnapshotRef,
                   lookup, nextId, completed, restoreRun,
                   mountRestored, inputsChanged, persistedBy, failedBy,
                   staleLookups, lookupLog>>

\* lines 1600-1695: the route (or its straight fallback) is drawn, then
\* persistSnapshot (lines 711-737) hands the snapshot to the caller, whose
\* setMapSnapshot renders MapView with it
CycleFinish ==
  /\ \E c \in cycles :
       /\ c.position = "routing"
       /\ LET lines == IF c.found >= 2 THEN Drawn(c.id, 1) ELSE {}
              snapshot == [signature |-> c.signature, provider |-> ActiveProvider,
                           places |-> c.found, polylines |-> Cardinality(lines)]
              persisted == [Refs EXCEPT
                              !.lastSnapshotRef = snapshot,
                              !.polylinesRef = @ \cup lines,
                              !.restoredSignatureRef = c.signature,
                              !.cycles = @ \ {c},
                              !.completed = [by |-> c.id, kind |-> "render",
                                             markers |-> markersRef,
                                             polylines |-> polylinesRef \cup lines]]
          IN /\ persistedState' = snapshot
             /\ persistedBy' = persistedBy \cup {c.id}
             /\ SetRefs(Commit(persisted,
                                Rendered(destination, places, routeStrategy,
                                         snapshot, mapReady, mapRef),
                                [NoDeps EXCEPT !.persistedState = TRUE]))
  /\ inputsChanged' = TRUE
  /\ UNCHANGED <<places, destination, pipelineVars, routeStrategy, initMap, mapReady,
                 mapRef, mountRestored, failedBy, lookupLog>>

\* lines 1696-1699: an exception escapes a step of displayPlacesAndRoute; the
\* catch logs it, and persistSnapshot is not reached
CycleFailed ==
  \E c \in cycles :
    /\ cycles' = cycles \ {c}
    /\ failedBy' = failedBy \cup {c.id}
    /\ UNCHANGED <<places, destination, pipelineVars, routeStrategy, persistedState,
                   initMap, mapReady, mapRef, markersRef, polylinesRef,
                   restoredSignatureRef, lastSnapshotRef, lookup, nextId, serviceCalls, completed,
                   restoreRun, mountRestored, inputsChanged, persistedBy,
                   staleLookups, lookupLog>>

\* the locateDestination calls that await geocode (line 1078)
lookupsInFlight == staleLookups \cup (IF lookup = NoLookup THEN {} ELSE {lookup})

\* a check that does not see the cancellation
discarded_never(l) == FALSE

\* lines 1081 and 1131: isCancelled || abortController.signal.aborted
discarded(l) == l \in staleLookups

\* lines 1078-1128: geocode answers with the location of the destination;
\* unless the call was cancelled its marker replaces the markers and the map
\* is centred on it
LookupDone ==
  \E l \in lookupsInFlight :
    /\ IF discarded(l)
       THEN UNCHANGED <<markersRef, completed>>
       ELSE /\ markersRef' = Drawn(l.id, 1)
            /\ completed' = [by |-> l.id, kind |-> "lookup", markers |-> Drawn(l.id, 1),
                             polylines |-> polylinesRef]
    /\ lookupLog' = lookupLog \cup {[id |-> l.id, superseded |-> l \in staleLookups,
                                     applied |-> ~discarded(l)]}
    /\ lookup' = IF l = lookup THEN NoLookup ELSE lookup
    /\ staleLookups' = staleLookups \ {l}
    /\ UNCHANGED <<places, destination, pipelineVars, routeStrategy, persistedState,
                   initMap, mapReady, mapRef, polylinesRef, restoredSignatureRef, lastSnapshotRef,
                   cycles, nextId, serviceCalls, restoreRun,
                   mountRestored, inputsChanged, persistedBy, failedBy>>

\* lines 1087 and 1129-1136: geocode returns nothing or throws
LookupFailed ==
  \E l \in lookupsInFlight :
    /\ lookupLog' = lookupLog \cup {[id |-> l.id, superseded |-> l \in staleLookups,
                                     applied |-> FALSE]}
    /\ lookup' = IF l = lookup THEN NoLookup ELSE lookup
    /\ staleLookups' = staleLookups \ {l}
    /\ UNCHANGED <<places, destination, pipelineVars, routeStrategy, persistedState,
                   initMap, mapReady, mapRef, markersRef, polylinesRef,
                   restoredSignatureRef, lastSnapshotRef, cycles, nextId, serviceCalls,
                   completed, restoreRun, mountRestored, inputsChanged,
                   persistedBy, failedBy>>

\* what the caller may have kept in session storage: nothing, a snapshot of
\* an older format, or a snapshot some render cycle persisted
InitialSnapshots ==
  {NoSnapshot,
   [signature |-> MissingSignature, provider |-> ActiveProvider, places |-> 1,
    polylines |-> 0],
   [signature |-> inputSignatureOf(FALSE, <<PlaceA, PlaceB>>, <<>>, "driving"),
    provider |-> ActiveProvider, places |-> 1, polylines |-> 0]}
  \cup {[signature |-> inputSignatureOf(TRUE, <<PlaceA, PlaceB>>, <<>>, "driving"),
         provider |-> pr, places |-> 2, polylines |-> 1] : pr \in Providers}

Init ==
  /\ places \in ComponentPlaceLists
  /\ routeSequence = <<>>
  /\ destination \in BOOLEAN
  /\ cfgRadiusKm = Undefined
  /\ InitRenderIdle
  /\ InitNormIdle
  /\ InitProgIdle
  /\ InitBatchIdle
  /\ InitFnIdle
  /\ routeStrategy \in Strategies
  /\ persistedState \in InitialSnapshots
  /\ InitMounted

Next ==
  \/ MapInitDone
  \/ MapInitFailed
  \/ SetDestination
  \/ SetPlaces
  \/ handleRouteStrategyChange
  \/ CycleGeocoded
  \/ CycleMarkers
  \/ CycleFinish
  \/ CycleFailed
  \/ LookupDone
  \/ LookupFailed

Spec == Init /\ [][Next]_vars

\* C7: at most one render cycle (displayPlacesAndRoute) is in flight at any
\* time, including when destination, places or routeStrategy change while a
\* cycle is geocoding, drawing or routing.
C7_AtMostOneCycleInFlight == Cardinality(cycles) <= 1

\* C8: every redraw (full render, snapshot restore, destination lookup)
\* empties both collections before it adds anything, so when it completes
\* both collections hold only what that redraw drew.
C8_RedrawLeavesOnlyItsOwn ==
  completed.by # 0 =>
    /\ \A m \in completed.markers : m[1] = completed.by
    /\ \A l \in completed.polylines : l[1] = completed.by

\* C9: a persisted snapshot whose signature does not match the current input
\* signature is never restored onto the map, whatever is currently drawn.
C9_MismatchedSnapshotNeverRestored ==
  restoreRun.outcome = "restored" => restoreRun.matches

\* C9 (amended): a persisted snapshot whose signature does not match the
\* current input signature is never restored while a marker or a polyline is
\* drawn; it is restored only onto an empty map.
C9_MismatchedSnapshotNotRestoredOverDrawing ==
  restoreRun.outcome = "restored" => (restoreRun.matches \/ ~restoreRun.drawn)

\* the restore effect ran on a mismatching snapshot while something was
\* drawn, and left the map alone
C9_Witness ==
  /\ restoreRun.outcome = "stale"
  /\ ~restoreRun.matches
  /\ restoreRun.drawn
  /\ markersRef # {}

\* C10: when the map becomes ready on a mount whose persisted snapshot has
\* the current input signature and the active provider, the map is drawn
\* from the snapshot and, as long as inputs and snapshot stay the same, no
\* geocode, boundary or planRoute call is made and no cycle or lookup starts.
C10_MountOnMatchingSnapshot ==
  (mountRestored /\ ~inputsChanged) =>
    /\ serviceCalls = {}
    /\ cycles = {}
    /\ lookup.id = 0
    /\ completed.by # 0
    /\ markersRef = Drawn(completed.by, persistedState.places)
    /\ polylinesRef = Drawn(completed.by, persistedState.polylines)
    /\ restoredSignatureRef = inputSignature

\* the map became ready on a matching snapshot and shows its markers and its
\* polyline
C10_Witness ==
  /\ mountRestored
  /\ ~inputsChanged
  /\ mapReady
  /\ markersRef # {}
  /\ polylinesRef # {}

\* C28: a call of restoreSnapshot with a snapshot of another provider than
\* the active one returns false and leaves markers, polylines, the last
\* snapshot and the restored signature as they were, and the display effect
\* of the same commit starts a render cycle for the current inputs.
C28_ProviderMismatchLeavesMapToRender ==
  [][(/\ restoreRun' # restoreRun
      /\ restoreRun'.outcome \in {"provider", "restored"}
      /\ restoreRun'.mismatch) =>
       /\ ~restoreRun'.returned
       /\ restoreRun'.after = restoreRun'.before
       /\ restoredSignatureRef' = restoreRun'.before.restoredSignatureRef
       /\ lastSnapshotRef' = restoreRun'.before.lastSnapshotRef
       /\ places' # <<>> =>
            \E c \in cycles' \ cycles : c.signature = inputSignature']_vars

\* restoreSnapshot was called with a snapshot of another provider while
\* markers were drawn, and a render cycle for the inputs is under way
C28_Witness ==
  /\ restoreRun.outcome = "provider"
  /\ restoreRun.before.markersRef # {}
  /\ \E c \in cycles : c.signature = inputSignature

\* C11: onStatePersist is invoked once per change of inputs, after the render
\* for those inputs completes: only a completed render invokes it (a failed
\* render and a snapshot restore do not), and the snapshot fed back as
\* persistedState starts no further render, so every render cycle in flight
\* was started by a change of inputs.
C11_PersistOncePerInputChange ==
  /\ \A c \in cycles : c.trigger = "inputs"
  /\ persistedBy \cap failedBy = {}
  /\ completed.by # 0 => (completed.by \in persistedBy <=> completed.kind = "render")

\* C14: when the destination changes, or places arrive, while a
\* destination-only lookup is in flight, the result of the superseded lookup
\* is never applied to the map, in whichever order the lookups return: it
\* adds no marker and does not recentre the view.
C14_SupersededLookupDiscarded ==
  /\ \A e \in lookupLog : e.superseded => ~e.applied
  /\ \A l \in staleLookups : <<l.id, 1>> \notin markersRef

\* a superseded lookup and the later lookup that replaced it have both
\* returned, and the marker of the replacement is the one on the map
C14_Witness ==
  \E e, f \in lookupLog :
    /\ e.superseded /\ ~e.applied
    /\ ~f.superseded /\ f.applied
    /\ e.id < f.id
    /\ markersRef = Drawn(f.id, 1)

(***************************************************************************)
(* The geocoding pool: pMap(places, mapper, { concurrency: 6 }), lines      *)
(* 1165-1200 and 1238-1261                                                 *)
(***************************************************************************)
\* line 1253
concurrency == 6

MaxPoolPlaces == 8

\* a results slot that no mapper call has written
EmptySlot == [empty |-> TRUE]

\* the places of a pool run, each with a name of its own: every other one
\* has coordinates of its own
PoolPlace(k) ==
  IF k % 2 = 0
  THEN [name |-> [j \in 1..k |-> "p"], day |-> 0, lng |-> Site(3).lng, lat |-> Site(3).lat + k]
  ELSE [name |-> [j \in 1..k |-> "p"], day |-> 0, lng |-> Undefined, lat |-> Undefined]

\* a pool that resolves as soon as one mapper call has settled
allSettled_first(done, total) == done >= 1 \/ total = 0

\* line 1173: resolved === iterable.length
allSettled(done, total) == done = total

\* a loop that starts every place that is left
startable_all(inF, idx, total) == total - idx

\* line 1176: the number of mapper calls the while loop of next() starts
startable(inF, idx, total) ==
  IF inF < concurrency /\ idx < total THEN Min({concurrency - inF, total - idx}) ELSE 0

\* lines 1240-1250: what the mapper may return for a place; undefined when
\* geocodeWithAugment throws
mapperResults(place) ==
  IF IsNumber(place.lng) /\ IsNumber(place.lat) THEN {place}
  ELSE {NoResult, [place EXCEPT !.lng = Site(1).lng, !.lat = Site(1).lat]}

\* lines 1166-1170 and 1198: pMap is called and next() runs for the first time
PoolStart ==
  /\ poolPc = "idle"
  /\ LET total == Len(places)
         k == startable(0, 0, total)
     IN /\ results' = [i \in 1..total |-> EmptySlot]
        /\ index' = k
        /\ inFlight' = k
        /\ running' = 1..k
        /\ resolved' = 0
        /\ mapperCalls' = [i \in 1..total |-> IF i <= k THEN 1 ELSE 0]
        /\ settleCalls' = [i \in 1..total |-> 0]
        /\ resolveCalls' = IF allSettled(0, total) THEN 1 ELSE 0
        /\ poolPc' = IF allSettled(0, total) THEN "resolved" ELSE "running"
  /\ UNCHANGED <<coreVars, progVars, batchVars, geoVars, loadVars, normVars, fnVars>>

\* lines 1179-1193: a mapper call settles; finally counts it and calls next()
MapperSettles ==
  /\ poolPc = "running"
  /\ \E currentIndex \in running :
       \E res \in mapperResults(places[currentIndex]) :
         LET total == Len(places)
             k == IF allSettled(resolved + 1, total) THEN 0
                  ELSE startable(inFlight - 1, index, total)
         IN /\ results' = [results EXCEPT ![currentIndex] = res]
            /\ resolved' = resolved + 1
            /\ index' = index + k
            /\ inFlight' = inFlight - 1 + k
            /\ running' = (running \ {currentIndex}) \cup ((index + 1)..(index + k))
            /\ mapperCalls' = [i \in 1..total |->
                                 IF i \in (index + 1)..(index + k)
                                 THEN mapperCalls[i] + 1 ELSE mapperCalls[i]]
            /\ settleCalls' = [settleCalls EXCEPT ![currentIndex] = @ + 1]
            /\ resolveCalls' = IF allSettled(resolved + 1, total)
                               THEN resolveCalls + 1 ELSE resolveCalls
            /\ poolPc' = IF allSettled(resolved + 1, total) THEN "resolved" ELSE "running"
  /\ UNCHANGED <<coreVars, progVars, batchVars, geoVars, loadVars, normVars, fnVars>>

InitPool ==
  /\ \E n \in 1..MaxPoolPlaces : places = [k \in 1..n |-> PoolPlace(k)]
  /\ routeSequence = <<>>
  /\ destination = FALSE
  /\ cfgRadiusKm = Undefined
  /\ InitRenderIdle
  /\ InitNormIdle
  /\ InitProgIdle
  /\ InitBatchIdle
  /\ InitFnIdle
  /\ routeStrategy = "driving"
  /\ persistedState = NoSnapshot
  /\ InitMounted

NextPool ==
  \/ PoolStart
  \/ MapperSettles

SpecPool == InitPool /\ [][NextPool]_vars

\* C13: while the place list is geocoded through the pool, at most 6 place
\* resolutions are in flight, and whenever one has completed while unstarted
\* places remain the next one has been started at once: the pool is full as
\* long as a place is unstarted.
C13_PoolBoundedAndSaturated ==
  /\ inFlight <= concurrency
  /\ Cardinality(running) = inFlight
  /\ running \subseteq 1..index
  /\ (poolPc = "running" /\ index < Len(places)) => inFlight = concurrency
  /\ poolPc = "resolved" => (resolved = Len(places) /\ inFlight = 0)

\* a resolution has completed with a place still unstarted, and the pool is
\* full again
C13_Witness ==
  /\ poolPc = "running"
  /\ resolved > 0
  /\ index < Len(places)
  /\ inFlight = concurrency

\* the result slot of place i is empty, or place i itself, or place i with
\* coordinates added
SlotOfPlace(i) ==
  \/ results[i] = EmptySlot
  \/ results[i] = NoResult
  \/ /\ results[i].name = places[i].name
     /\ IsNumber(results[i].lng)
     /\ IsNumber(places[i].lng) => results[i] = places[i]

\* C27: pMap resolves once, and only when every place has settled; the
\* mapper is called at most once per place and each call settles once; slot
\* i holds the result for place i; a failed place leaves its slot without
\* a result while every other place is still resolved once.
C27_PoolResolvesOnceAllSettled ==
  /\ resolveCalls <= 1
  /\ resolveCalls = 1 <=> poolPc = "resolved"
  /\ poolPc = "resolved" =>
       /\ running = {}
       /\ \A i \in 1..Len(places) : mapperCalls[i] = 1 /\ settleCalls[i] = 1
  /\ poolPc # "idle" =>
       \A i \in 1..Len(places) :
         /\ mapperCalls[i] <= 1
         /\ settleCalls[i] <= mapperCalls[i]
         /\ settleCalls[i] = 0 => results[i] = EmptySlot
         /\ SlotOfPlace(i)

\* the pool has resolved with a failed place in the first slot and resolved
\* places after it
C27_Witness ==
  /\ poolPc = "resolved"
  /\ Len(places) >= 3
  /\ results[1] = NoResult
  /\ results[2] = places[2]
  /\ results[3] # NoResult /\ results[3].name = places[3].name

(***************************************************************************)
(* geocodeWithAugment(place, destinationCtx), lines 489-514                *)
(***************************************************************************)
\* the alternatives of the regular expression of line 497
adminSuffixes ==
  { <<"U+7701">>, <<"U+5E02">>, <<"U+81EA", "U+6CBB", "U+533A">>,
    <<"U+7279", "U+522B", "U+884C", "U+653F", "U+533A">>, <<"U+53BF">>, <<"U+533A">> }

\* line 497: .replace(/(...)$/g, ''): the leftmost match that ends the string
\* is removed, which is the longest alternative the string ends with
cityOf(dest) ==
  LET ends == {w \in adminSuffixes : EndsWith(dest, w)}
  IN IF ends = {} THEN dest
     ELSE LET w == CHOOSE v \in ends : \A u \in ends : Len(u) <= Len(v)
          IN SubSeq(dest, 1, Len(dest) - Len(w))

\* `${a} ${b}`
Spaced(a, b) == a \o <<" ">> \o b

\* candidates that put the name before the address
candidates_nameFirst(place, dest) ==
  (IF place.name # <<>> THEN <<place.name>> ELSE <<>>)
  \o (IF place.address # <<>> THEN <<place.address>> ELSE <<>>)
  \o (IF place.name # <<>> /\ dest # <<>> THEN <<Spaced(dest, place.name)>> ELSE <<>>)
  \o (IF place.name # <<>> /\ dest # <<>> /\ cityOf(dest) # <<>> /\ cityOf(dest) # dest
      THEN <<Spaced(cityOf(dest), place.name)>> ELSE <<>>)

\* lines 490-501: the local candidates
geoCandidates(place, dest) ==
  (IF place.address # <<>> THEN <<place.address>> ELSE <<>>)
  \o (IF place.name # <<>> THEN <<place.name>> ELSE <<>>)
  \o (IF place.name # <<>> /\ dest # <<>> THEN <<Spaced(dest, place.name)>> ELSE <<>>)
  \o (IF place.name # <<>> /\ dest # <<>> /\ cityOf(dest) # <<>> /\ cityOf(dest) # dest
      THEN <<Spaced(cityOf(dest), place.name)>> ELSE <<>>)

\* line 503: Array.from(new Set(candidates.filter(Boolean)))
RECURSIVE uniqueFrom(_, _)
uniqueFrom(cands, acc) ==
  IF cands = <<>> THEN acc
  ELSE uniqueFrom(Tail(cands),
                  IF Head(cands) = <<>> \/ Head(cands) \in Range(acc) THEN acc
                  ELSE Append(acc, Head(cands)))

\* geocode.js lines 8-31: what geocode(q) may answer: a result with numeric
\* lng and lat, a result without, or a rejection; a blank query is rejected
\* before the backend is asked
geocodeAnswers(q) ==
  IF Trim(q) = <<>> THEN {"rejected"} ELSE {"numeric", "other", "rejected"}

Hangzhou == <<"U+676D", "U+5DDE">>

\* arguments: places with and without address and name, an address equal to
\* the name or to a later candidate, a blank name; destinations with and
\* without an administrative suffix, and one that is nothing but a suffix
GeoPlaces ==
  [address : {<<>>, <<"R", "d">>, Hall, Spaced(Hangzhou, Hall)},
   name : {<<>>, Hall, <<" ">>}]

GeoDestinations ==
  { <<>>, Hangzhou, Hangzhou \o <<"U+5E02">>, <<"U+5E02">>,
    <<"U+5B81", "U+590F">> \o <<"U+81EA", "U+6CBB", "U+533A">> }

\* lines 489-505: the call builds unique and asks geocode for the first
\* candidate; without a candidate it throws at once (line 513)
geocodeWithAugment ==
  /\ geoPc = "idle"
  /\ \E place \in GeoPlaces, dest \in GeoDestinations :
       \E u \in {uniqueFrom(geoCandidates(place, dest), <<>>)} :
         /\ geoPlace' = place
         /\ destinationCtx' = dest
         /\ unique' = u
         /\ queryLog' = IF u = <<>> THEN <<>> ELSE <<u[1]>>
         /\ geoPc' = IF u = <<>> THEN "failed" ELSE "waiting"
  /\ UNCHANGED <<coreVars, progVars, batchVars, poolVars, loadVars, normVars, fnVars, answerLog>>

\* lines 506-513: geocode settles; a numeric result is returned, anything
\* else moves on to the next candidate or, after the last, to the throw
geocodeSettles ==
  /\ geoPc = "waiting"
  /\ \E r \in geocodeAnswers(queryLog[Len(queryLog)]) :
       /\ answerLog' = Append(answerLog, r)
       /\ IF r = "numeric"
          THEN geoPc' = "returned" /\ queryLog' = queryLog
          ELSE IF Len(queryLog) < Len(unique)
               THEN geoPc' = "waiting"
                    /\ queryLog' = Append(queryLog, unique[Len(queryLog) + 1])
               ELSE geoPc' = "failed" /\ queryLog' = queryLog
  /\ UNCHANGED <<coreVars, progVars, batchVars, poolVars, loadVars, normVars, fnVars, geoPlace, destinationCtx, unique>>

InitGeo ==
  /\ places = <<>>
  /\ routeSequence = <<>>
  /\ destination = FALSE
  /\ cfgRadiusKm = Undefined
  /\ InitRenderIdle
  /\ InitNormIdle
  /\ InitProgIdle
  /\ InitBatchIdle
  /\ InitFnIdle
  /\ routeStrategy = "driving"
  /\ persistedState = NoSnapshot
  /\ InitMounted

NextGeo ==
  \/ geocodeWithAugment
  \/ geocodeSettles

SpecGeo == InitGeo /\ [][NextGeo]_vars

\* the candidate list the claim describes: address, name, destination and
\* name, destination without administrative suffix and name, each once
OrderedCandidates ==
  LET a == geoPlace.address
      n == geoPlace.name
      d == destinationCtx
      c == cityOf(destinationCtx)
      slots == <<a, n, IF n # <<>> /\ d # <<>> THEN Spaced(d, n) ELSE <<>>,
                 IF n # <<>> /\ d # <<>> /\ c # <<>> /\ c # d THEN Spaced(c, n) ELSE <<>> >>
      first(i) == slots[i] # <<>> /\ \A j \in 1..(i - 1) : slots[j] # slots[i]
  IN SelectSeq([i \in 1..4 |-> IF first(i) THEN slots[i] ELSE <<>>],
               LAMBDA q : q # <<>>)

\* C17: geocodeWithAugment hands its de-duplicated candidates to geocode one
\* at a time in the order address, name, destination and name, destination
\* without administrative suffix and name; it stops at the first result with
\* numeric lng and lat without a further query, and fails only after every
\* candidate has failed.
C17_CandidatesInOrderUntilFirstHit ==
  geoPc # "idle" =>
    /\ unique = OrderedCandidates
    /\ Len(queryLog) <= Len(unique)
    /\ queryLog = SubSeq(unique, 1, Len(queryLog))
    /\ \A i \in 1..Len(answerLog) : answerLog[i] = "numeric" => i = Len(queryLog)
    /\ geoPc = "waiting" =>
         /\ Len(queryLog) = Len(answerLog) + 1
         /\ \A i \in 1..Len(answerLog) : answerLog[i] # "numeric"
    /\ geoPc = "returned" =>
         /\ Len(queryLog) = Len(answerLog)
         /\ answerLog[Len(answerLog)] = "numeric"
    /\ geoPc = "failed" =>
         /\ queryLog = unique
         /\ Len(answerLog) = Len(unique)
         /\ \A i \in 1..Len(answerLog) : answerLog[i] # "numeric"

\* a call with four different candidates has returned the result of the
\* third, after two failures, and has not asked for the fourth
C17_Witness ==
  /\ geoPc = "returned"
  /\ Len(unique) = 4
  /\ queryLog = <<geoPlace.address, geoPlace.name,
                  Spaced(destinationCtx, geoPlace.name)>>
  /\ answerLog = <<"rejected", "other", "numeric">>

(***************************************************************************)
(* Loading the map backend: the initialisation effect with initMap (lines  *)
(* 880-1061) and loadMapScript (lines 739-877)                             *)
(***************************************************************************)
\* lines 780 and 788: the poll looks every 100 ms and gives up after 10 s
checkIntervalMs == 100

timeoutMs == 10000

\* resolve() and reject() on a promise that is settled change nothing
resolve(p) == IF p = "pending" THEN "resolved" ELSE p

reject(p) == IF p = "pending" THEN "rejected" ELSE p

\* a loadMapScript that polls without arming the timeout
loadMapScript_noTimeout(sdk, tag) ==
  IF sdk THEN [promise |-> "resolved", scriptTag |-> tag, polling |-> FALSE, timerArmed |-> FALSE]
  ELSE IF tag = "existing"
       THEN [promise |-> "pending", scriptTag |-> tag, polling |-> TRUE, timerArmed |-> FALSE]
       ELSE [promise |-> "pending", scriptTag |-> "requested", polling |-> FALSE,
             timerArmed |-> FALSE]

\* lines 739-877, the synchronous part: resolved at once if the global is
\* defined; with a script tag of the provider in the document the poll
\* starts at once; otherwise a script tag is appended and its load or error
\* event is awaited
loadMapScript(sdk, tag) ==
  IF sdk THEN [promise |-> "resolved", scriptTag |-> tag, polling |-> FALSE, timerArmed |-> FALSE]
  ELSE IF tag = "existing"
       THEN [promise |-> "pending", scriptTag |-> tag, polling |-> TRUE, timerArmed |-> TRUE]
       ELSE [promise |-> "pending", scriptTag |-> "requested", polling |-> FALSE,
             timerArmed |-> FALSE]

\* an attempt that never sees its cleanup
cleanedUp_never(mounted) == FALSE

\* lines 907 and 1000: if (!isMounted) return
cleanedUp(mounted) == ~mounted

\* lines 881-906: the effect runs; without a key (other than for osm) it
\* only sets mapReady to false; a container without size is waited for
initMapStarts ==
  /\ loadPc = "idle"
  /\ \E provider \in {"amap", "baidu", "osm"}, key \in BOOLEAN, zeroSize \in BOOLEAN,
        sdk \in BOOLEAN, tag \in {"none", "existing"} :
       /\ loadProvider' = provider
       /\ sdkDefined' = sdk
       /\ IF provider # "osm" /\ ~key
          THEN /\ loadPc' = "nokey"
               /\ scriptTag' = tag
               /\ UNCHANGED <<promise, polling, timerArmed>>
          ELSE IF zeroSize
               THEN /\ loadPc' = "sizing"
                    /\ scriptTag' = tag
                    /\ UNCHANGED <<promise, polling, timerArmed>>
               ELSE \E l \in {loadMapScript(sdk, tag)} :
                      /\ loadPc' = "loading"
                      /\ scriptTag' = l.scriptTag
                      /\ promise' = l.promise
                      /\ polling' = l.polling
                      /\ timerArmed' = l.timerArmed
  /\ UNCHANGED <<coreVars, progVars, batchVars, poolVars, geoVars, normVars, fnVars, cleanedBy, mapOwner, readyBy, successor, elapsed, isMounted>>

\* lines 899-906: the 500 ms wait is over
sizeWaitOver ==
  /\ loadPc = "sizing"
  /\ IF ~isMounted
     THEN /\ loadPc' = "abandoned"
          /\ UNCHANGED <<scriptTag, promise, polling, timerArmed>>
     ELSE \E l \in {loadMapScript(sdkDefined, scriptTag)} :
            /\ loadPc' = "loading"
            /\ scriptTag' = l.scriptTag
            /\ promise' = l.promise
            /\ polling' = l.polling
            /\ timerArmed' = l.timerArmed
  /\ UNCHANGED <<coreVars, progVars, batchVars, poolVars, geoVars, normVars, fnVars, cleanedBy, mapOwner, readyBy, successor, loadProvider, sdkDefined, elapsed, isMounted>>

\* lines 777-793 and 845-866: script.onload sets the interval and the timeout
scriptOnload ==
  /\ scriptTag = "requested"
  /\ scriptTag' = "loaded"
  /\ polling' = TRUE
  /\ timerArmed' = TRUE
  /\ elapsed' = 0
  /\ UNCHANGED <<coreVars, progVars, batchVars, poolVars, geoVars, normVars, fnVars, cleanedBy, mapOwner, readyBy, successor, loadPc, loadProvider, sdkDefined, promise,
                 isMounted>>

\* lines 794 and 867-874: script.onerror rejects
scriptOnerror ==
  /\ scriptTag = "requested"
  /\ scriptTag' = "failed"
  /\ promise' = reject(promise)
  /\ UNCHANGED <<coreVars, progVars, batchVars, poolVars, geoVars, normVars, fnVars, cleanedBy, mapOwner, readyBy, successor, loadPc, loadProvider, sdkDefined, polling,
                 timerArmed, elapsed, isMounted>>

\* the script of the backend defines its global, at some time after the tag
\* has loaded or while an earlier tag is in the document
sdkDefines ==
  /\ scriptTag \in {"loaded", "existing"}
  /\ ~sdkDefined
  /\ sdkDefined' = TRUE
  /\ UNCHANGED <<coreVars, progVars, batchVars, poolVars, geoVars, normVars, fnVars, cleanedBy, mapOwner, readyBy, successor, loadPc, loadProvider, scriptTag, promise,
                 polling, timerArmed, elapsed, isMounted>>

\* lines 779-784: 100 ms pass before the timeout is due; the interval, if it
\* is set, looks for the global
checkInterval ==
  /\ timerArmed
  /\ elapsed + checkIntervalMs < timeoutMs
  /\ elapsed' = elapsed + checkIntervalMs
  /\ IF polling /\ sdkDefined
     THEN polling' = FALSE /\ promise' = resolve(promise)
     ELSE UNCHANGED <<polling, promise>>
  /\ UNCHANGED <<coreVars, progVars, batchVars, poolVars, geoVars, normVars, fnVars, cleanedBy, mapOwner, readyBy, successor, loadPc, loadProvider, sdkDefined, scriptTag,
                 timerArmed, isMounted>>

\* lines 785-792: the timeout fires, clears the interval and settles
pollTimeout ==
  /\ timerArmed
  /\ elapsed + checkIntervalMs >= timeoutMs
  /\ elapsed' = timeoutMs
  /\ timerArmed' = FALSE
  /\ polling' = FALSE
  /\ promise' = IF sdkDefined THEN resolve(promise) ELSE reject(promise)
  /\ UNCHANGED <<coreVars, progVars, batchVars, poolVars, geoVars, normVars, fnVars, cleanedBy, mapOwner, readyBy, successor, loadPc, loadProvider, sdkDefined, scriptTag,
                 isMounted>>

\* lines 908-1032: initMap goes on after await loadMapScript: it returns if
\* the effect was cleaned up, creates the map instance and sets mapReady, or
\* lands in the catch, which shows the error in the container if there is one
initMapContinues ==
  /\ loadPc = "loading"
  /\ promise \in {"resolved", "rejected"}
  /\ IF promise = "rejected"
     THEN /\ loadPc' = IF isMounted \/ cleanedBy = "deps" THEN "error" ELSE "abandoned"
          /\ readyBy' = "none"
          /\ UNCHANGED mapOwner
     ELSE IF cleanedUp(isMounted)
          THEN /\ loadPc' = "abandoned"
               /\ UNCHANGED <<mapOwner, readyBy>>
          ELSE \E created \in BOOLEAN :
                 IF created
                 THEN /\ loadPc' = "ready"
                      /\ mapOwner' = "this"
                      /\ readyBy' = "this"
                 ELSE /\ loadPc' = "error"
                      /\ readyBy' = "none"
                      /\ UNCHANGED mapOwner
  /\ UNCHANGED <<coreVars, progVars, batchVars, poolVars, geoVars, normVars, fnVars, loadProvider, sdkDefined, scriptTag, promise,
                 polling, timerArmed, elapsed, isMounted, cleanedBy, successor>>

\* lines 1035-1060: the cleanup of the effect, here because MapView is
\* unmounted while the attempt is under way
initMapCleanup ==
  /\ loadPc \in {"sizing", "loading"}
  /\ isMounted
  /\ isMounted' = FALSE
  /\ cleanedBy' = "unmount"
  /\ mapOwner' = "none"
  /\ readyBy' = "none"
  /\ UNCHANGED <<coreVars, progVars, batchVars, poolVars, geoVars, normVars, fnVars, loadPc, loadProvider, sdkDefined, scriptTag,
                 promise, polling, timerArmed, elapsed, successor>>

\* lines 1035-1061: cfg.map.provider or cfg.map.key has changed: the cleanup
\* of the effect runs and the effect starts an attempt of its own
initMapRestarts ==
  /\ loadPc \in {"sizing", "loading", "ready"}
  /\ isMounted
  /\ isMounted' = FALSE
  /\ cleanedBy' = "deps"
  /\ mapOwner' = "none"
  /\ readyBy' = "none"
  /\ successor' = "loading"
  /\ UNCHANGED <<coreVars, progVars, batchVars, poolVars, geoVars, normVars, fnVars, loadPc, loadProvider, sdkDefined, scriptTag,
                 promise, polling, timerArmed, elapsed>>

\* lines 1014-1015 in the attempt of the effect's next run
successorInstalls ==
  /\ successor = "loading"
  /\ successor' = "ready"
  /\ mapOwner' = "next"
  /\ readyBy' = "next"
  /\ UNCHANGED <<coreVars, progVars, batchVars, poolVars, geoVars, normVars, fnVars, loadPc, loadProvider, sdkDefined, scriptTag,
                 promise, polling, timerArmed, elapsed, isMounted, cleanedBy>>

InitLoad ==
  /\ places = <<>>
  /\ routeSequence = <<>>
  /\ destination = FALSE
  /\ cfgRadiusKm = Undefined
  /\ InitRenderIdle
  /\ InitNormIdle
  /\ InitProgIdle
  /\ InitBatchIdle
  /\ InitFnIdle
  /\ routeStrategy = "driving"
  /\ persistedState = NoSnapshot
  /\ InitMounted

NextLoad ==
  \/ initMapStarts
  \/ sizeWaitOver
  \/ scriptOnload
  \/ scriptOnerror
  \/ sdkDefines
  \/ checkInterval
  \/ pollTimeout
  \/ initMapContinues
  \/ initMapCleanup

SpecLoad == InitLoad /\ [][NextLoad]_vars

\* timers fire and initMap goes on once its promise has settled; nothing is
\* assumed of the script tag, of the backend's global or of the unmount
SpecLoadLive ==
  /\ SpecLoad
  /\ WF_vars(sizeWaitOver)
  /\ WF_vars(checkInterval)
  /\ WF_vars(pollTimeout)
  /\ WF_vars(initMapContinues)

\* the attempt with the changes of provider and key that restart the effect
NextInit ==
  \/ NextLoad
  \/ initMapRestarts
  \/ successorInstalls

SpecInit == InitLoad /\ [][NextInit]_vars

\* C29: an attempt whose effect was cleaned up, by the unmount or by a change
\* of provider or key, does not put its map instance in mapRef.current and
\* does not set mapReady to true, whenever its loading ends.
C29_StaleAttemptInstallsNothing ==
  ~isMounted => (mapOwner # "this" /\ readyBy # "this")

\* the script of an attempt loaded after provider or key had changed; the
\* attempt returned and the map of the next attempt is the current one
C29_Witness ==
  /\ cleanedBy = "deps"
  /\ loadPc = "abandoned"
  /\ promise = "resolved"
  /\ mapOwner = "next"
  /\ readyBy = "next"

\* loadMapScript has been called and is not waiting for the load or error
\* event of a script tag
ScriptAnswered == loadPc = "loading" /\ scriptTag # "requested"

\* the poll runs only with its timeout armed and never beyond 10 s
PollBounded ==
  /\ polling => timerArmed
  /\ elapsed <= timeoutMs

MaxNameLen == 3

\* the characters of the names: letters, white space, brackets, and the
\* characters of a leading verb (U+524D U+5F80), of a trailing word (U+9752
\* U+65C5) and of a generic suffix (U+5E97)
NameChars == {"a", "A", " ", "(", ")", "U+524D", "U+5F80", "U+9752", "U+65C5", "U+5E97"}

Names == {<<>>} \cup SeqsUpTo(NameChars, MaxNameLen)

\* line 1432 and others: normalizeName(name)
NormalizeOnce ==
  /\ normPc = "input"
  /\ normOnce' = normalizeName(nameIn)
  /\ normPc' = "once"
  /\ UNCHANGED <<coreVars, progVars, batchVars, poolVars, geoVars, loadVars, fnVars, nameIn, normTwice>>

\* normalizeName applied to its own result
NormalizeAgain ==
  /\ normPc = "once"
  /\ normTwice' = normalizeName(normOnce)
  /\ normPc' = "twice"
  /\ UNCHANGED <<coreVars, progVars, batchVars, poolVars, geoVars, loadVars, fnVars, nameIn, normOnce>>

InitNorm ==
  /\ places = <<>>
  /\ routeSequence = <<>>
  /\ destination = FALSE
  /\ cfgRadiusKm = Undefined
  /\ InitRenderIdle
  /\ routeStrategy = "driving"
  /\ persistedState = NoSnapshot
  /\ InitMounted
  /\ InitFnIdle
  /\ InitProgIdle
  /\ InitBatchIdle
  /\ normPc = "input"
  /\ nameIn \in Names
  /\ normOnce = <<>>
  /\ normTwice = <<>>

NextNorm ==
  \/ NormalizeOnce
  \/ NormalizeAgain

SpecNorm == InitNorm /\ [][NextNorm]_vars

\* C20: normalizeName is idempotent: for every string s,
\* normalizeName(normalizeName(s)) equals normalizeName(s).
C20_NormalizeIdempotent ==
  normPc = "twice" => normTwice = normOnce

(***************************************************************************)
(* dedupeByCoordGrid applied to its own output (lines 517-525)             *)
(***************************************************************************)
MaxCoords == 3

\* two points of one 5-decimal cell, one just across the cell border, one
\* far away and one without coordinates
CoordPool ==
  { [name |-> Hall,   lng |-> 1200000000, lat |-> 300000000],
    [name |-> HallPark, lng |-> 1200000049, lat |-> 300000000],
    [name |-> TowerA, lng |-> 1200000050, lat |-> 300000000],
    [name |-> Garden, lng |-> 1210000000, lat |-> 310000000],
    [name |-> Gate,   lng |-> Undefined,  lat |-> Undefined] }

CoordLists == UNION { [1..n -> CoordPool] : n \in 0..MaxCoords }

\* placeCoords = dedupeByCoordGrid(placeCoords)
DedupeOnce ==
  /\ fnPc = "args"
  /\ fnArgs \in CoordLists
  /\ fnResult' = dedupeByCoordGrid(fnArgs)
  /\ fnPc' = "applied"
  /\ UNCHANGED <<coreVars, progVars, batchVars, poolVars, geoVars, loadVars, normVars, fnArgs, fnAgain>>

\* the same call on what the first call returned
DedupeAgain ==
  /\ fnPc = "applied"
  /\ fnAgain' = dedupeByCoordGrid(fnResult)
  /\ fnPc' = "reapplied"
  /\ UNCHANGED <<coreVars, progVars, batchVars, poolVars, geoVars, loadVars, normVars, fnArgs, fnResult>>

InitDedupe ==
  /\ places = <<>>
  /\ routeSequence = <<>>
  /\ destination = FALSE
  /\ cfgRadiusKm = Undefined
  /\ InitRenderIdle
  /\ routeStrategy = "driving"
  /\ persistedState = NoSnapshot
  /\ InitMounted
  /\ InitNormIdle
  /\ InitProgIdle
  /\ InitBatchIdle
  /\ fnPc = "args"
  /\ fnArgs \in CoordLists
  /\ fnResult = <<>>
  /\ fnAgain = <<>>

NextDedupe ==
  \/ DedupeOnce
  \/ DedupeAgain

SpecDedupe == InitDedupe /\ [][NextDedupe]_vars

\* C21: dedupeByCoordGrid applied to its own output returns the same points
\* in the same order, and its output never holds two points of the same
\* 5-decimal coordinate cell.
C21_DedupeIdempotentOnePerCell ==
  /\ fnPc = "reapplied" => fnAgain = fnResult
  /\ fnPc # "args" =>
       \A i, j \in 1..Len(fnResult) :
         i # j => GridKey(fnResult[i]) # GridKey(fnResult[j])

\* a list with two points of one cell was reduced to two cells and the
\* function was applied again
C21_Witness ==
  /\ fnPc = "reapplied"
  /\ Len(fnArgs) = 3
  /\ Len(fnResult) = 2
  /\ \E i, j \in 1..3 :
       /\ i < j
       /\ IsNumber(fnArgs[i].lng) /\ IsNumber(fnArgs[j].lng)
       /\ fnArgs[i] # fnArgs[j]
       /\ GridKey(fnArgs[i]) = GridKey(fnArgs[j])

(***************************************************************************)
(* isNameMatch on pairs of names, in both orders (lines 359-384)           *)
(***************************************************************************)
\* names that are equal after trim, contain one another, agree or contain
\* one another only after normalization, normalize to nothing, or are empty
MatchNames ==
  { <<>>,
    <<" ">>,
    Hall,
    <<" ">> \o Hall \o <<" ">>,
    HallPark,
    <<"h", "a", "l", "l">>,
    <<"h", "a", "l", "l", "-", "x">>,
    <<"H", "a", "l", "l", "x", "y">>,
    Garden,
    <<"U+9152", "U+5E97">>,
    <<"U+516C", "U+56ED">>,
    <<"U+524D", "U+5F80">> \o Garden }

\* isNameMatch(targetName, p.name)
MatchOnce ==
  /\ fnPc = "args"
  /\ fnArgs \in MatchNames \X MatchNames
  /\ fnResult' = isNameMatch(fnArgs[1], fnArgs[2])
  /\ fnPc' = "applied"
  /\ UNCHANGED <<coreVars, progVars, batchVars, poolVars, geoVars, loadVars, normVars, fnArgs, fnAgain>>

\* the same call with the arguments exchanged
MatchSwapped ==
  /\ fnPc = "applied"
  /\ fnAgain' = isNameMatch(fnArgs[2], fnArgs[1])
  /\ fnPc' = "reapplied"
  /\ UNCHANGED <<coreVars, progVars, batchVars, poolVars, geoVars, loadVars, normVars, fnArgs, fnResult>>

InitMatch ==
  /\ places = <<>>
  /\ routeSequence = <<>>
  /\ destination = FALSE
  /\ cfgRadiusKm = Undefined
  /\ InitRenderIdle
  /\ routeStrategy = "driving"
  /\ persistedState = NoSnapshot
  /\ InitMounted
  /\ InitNormIdle
  /\ InitProgIdle
  /\ InitBatchIdle
  /\ fnPc = "args"
  /\ fnArgs \in MatchNames \X MatchNames
  /\ fnResult = FALSE
  /\ fnAgain = FALSE

NextMatch ==
  \/ MatchOnce
  \/ MatchSwapped

SpecMatch == InitMatch /\ [][NextMatch]_vars

\* the shorter normalized form has at least 60% of the longer one's length
\* and is contained in it
RatioContained(sa, sb) ==
  /\ Len(sa) > 2 /\ Len(sb) > 2
  /\ Min({Len(sa), Len(sb)}) * 10 >= Max({Len(sa), Len(sb)}) * 6
  /\ IF Len(sa) > Len(sb) THEN Includes(sa, sb) ELSE Includes(sb, sa)

\* the conditions under which two names match, with the normalized forms
\* compared whatever they are
StatedMatch(a, b) ==
  LET na == Trim(a)
      nb == Trim(b)
      sa == normalizeName(na)
      sb == normalizeName(nb)
  IN /\ na # <<>> /\ nb # <<>>
     /\ \/ na = nb
        \/ Includes(na, nb) \/ Includes(nb, na)
        \/ sa = sb
        \/ Includes(sa, sb) \/ Includes(sb, sa)
        \/ RatioContained(sa, sb)

\* the same conditions, the normalized forms counting only when neither of
\* them is empty
GuardedMatch(a, b) ==
  LET na == Trim(a)
      nb == Trim(b)
      sa == normalizeName(na)
      sb == normalizeName(nb)
  IN /\ na # <<>> /\ nb # <<>>
     /\ \/ na = nb
        \/ Includes(na, nb) \/ Includes(nb, na)
        \/ /\ sa # <<>> /\ sb # <<>>
           /\ \/ sa = sb
              \/ Includes(sa, sb) \/ Includes(sb, sa)
              \/ RatioContained(sa, sb)

\* C22 (as stated): isNameMatch(a, b) is true exactly when the trimmed names
\* are non-empty and equal, or contain one another, or the normalized forms
\* are equal, contain one another or pass the 60% containment test; its
\* result is the same for (b, a).
C22_MatchAsStated ==
  /\ fnPc # "args" => fnResult = StatedMatch(fnArgs[1], fnArgs[2])
  /\ fnPc = "reapplied" => fnAgain = fnResult

\* C22 (amended): as above, but the normalized forms count only when both
\* are non-empty; two names that normalize to nothing do not match through
\* their normalized forms.
C22_MatchWithNonEmptyNormalizedForms ==
  /\ fnPc # "args" => fnResult = GuardedMatch(fnArgs[1], fnArgs[2])
  /\ fnPc = "reapplied" => fnAgain = fnResult

\* two names matched only through their normalized forms, in both orders
C22_Witness ==
  /\ fnPc = "reapplied"
  /\ fnResult = TRUE
  /\ ~Includes(Trim(fnArgs[1]), Trim(fnArgs[2]))
  /\ ~Includes(Trim(fnArgs[2]), Trim(fnArgs[1]))

(***************************************************************************)
(* getMarkerStyle for two days (lines 66-77)                               *)
(***************************************************************************)
MaxDayIndex == 14

\* getMarkerStyle(dayIndex), the style of the first day's markers
StyleFirstDay ==
  /\ fnPc = "args"
  /\ fnArgs \in (0..MaxDayIndex) \X (0..MaxDayIndex)
  /\ fnResult' = getMarkerStyle(fnArgs[1])
  /\ fnPc' = "applied"
  /\ UNCHANGED <<coreVars, progVars, batchVars, poolVars, geoVars, loadVars, normVars, fnArgs, fnAgain>>

\* getMarkerStyle(dayIndex), the style of the second day's markers
StyleSecondDay ==
  /\ fnPc = "applied"
  /\ fnAgain' = getMarkerStyle(fnArgs[2])
  /\ fnPc' = "reapplied"
  /\ UNCHANGED <<coreVars, progVars, batchVars, poolVars, geoVars, loadVars, normVars, fnArgs, fnResult>>

InitStyle ==
  /\ places = <<>>
  /\ routeSequence = <<>>
  /\ destination = FALSE
  /\ cfgRadiusKm = Undefined
  /\ InitRenderIdle
  /\ routeStrategy = "driving"
  /\ persistedState = NoSnapshot
  /\ InitMounted
  /\ InitNormIdle
  /\ InitProgIdle
  /\ InitBatchIdle
  /\ fnPc = "args"
  /\ fnArgs \in (0..MaxDayIndex) \X (0..MaxDayIndex)
  /\ fnResult = [color |-> "", pattern |-> ""]
  /\ fnAgain = [color |-> "", pattern |-> ""]

NextStyle ==
  \/ StyleFirstDay
  \/ StyleSecondDay

SpecStyle == InitStyle /\ [][NextStyle]_vars

\* C23: day index d gets the colour at position d mod 7 of the palette and
\* the pattern solid for even d, stripe for odd d, and two distinct days
\* with the same colour have different patterns.
C23_SameColorDifferentPattern ==
  /\ fnPc # "args" =>
       /\ fnResult.color = colors[(fnArgs[1] % 7) + 1]
       /\ fnResult.pattern = IF fnArgs[1] % 2 = 0 THEN "solid" ELSE "stripe"
  /\ fnPc = "reapplied" =>
       (fnArgs[1] # fnArgs[2] /\ fnResult.color = fnAgain.color
          => fnResult.pattern # fnAgain.pattern)

\* the colour and pattern rule alone
C23_ColorAndPatternRule ==
  fnPc = "reapplied" =>
    /\ fnResult.color = colors[(fnArgs[1] % 7) + 1]
    /\ fnAgain.color = colors[(fnArgs[2] % 7) + 1]
    /\ fnResult.pattern = (IF fnArgs[1] % 2 = 0 THEN "solid" ELSE "stripe")
    /\ fnArgs[2] = fnArgs[1] + 7 =>
         fnResult.color = fnAgain.color /\ fnResult.pattern # fnAgain.pattern

(***************************************************************************)
(* addMarkersInBatches (lines 1203-1223), called at line 1403              *)
(***************************************************************************)
MaxMarkers == 50

\* line 1403: { batchSize: 24 }
batchSize == 24

\* the whole rest of the list as one batch
batchEnd_all(coords, i) == Len(coords)

\* coords.slice(i, i + batchSize) ends before this index (0-based)
batchEnd(coords, i) == Min({i + batchSize, Len(coords)})

\* Math.round(x) for x = num / den, den > 0, num >= 0
Round(num, den) == (2 * num + den) \div (2 * den)

\* line 1219: the percent after a batch of batchLength markers
percentAfterBatch(prev, batchLength, total) ==
  Min({95, prev + Max({1, Round(batchLength * 35, Max({1, total}))})})

\* lines 1206-1208: makeMarker(coord) for the next coordinate of the batch
batchMakesMarker ==
  /\ batchPc = "batch"
  /\ batchI + batchJ < batchEnd(batchCoords, batchI)
  /\ madeMarkers' = Append(madeMarkers, batchCoords[batchI + batchJ + 1])
  /\ batchJ' = batchJ + 1
  /\ sinceYield' = sinceYield + 1
  /\ UNCHANGED <<coreVars, progVars, poolVars, geoVars, loadVars, normVars, fnVars,
                 batchPc, batchCoords, batchI, percent>>

\* lines 1210-1216: the batch is through, await the next animation frame
awaitFrame ==
  /\ batchPc = "batch"
  /\ batchI + batchJ = batchEnd(batchCoords, batchI)
  /\ batchPc' = "awaiting"
  /\ sinceYield' = 0
  /\ UNCHANGED <<coreVars, progVars, poolVars, geoVars, loadVars, normVars, fnVars,
                 batchCoords, batchI, batchJ, madeMarkers, percent>>

\* lines 1217-1221 and the loop header: the frame callback resolves the
\* promise, progress is advanced and the loop goes on or ends
frameCallback ==
  /\ batchPc = "awaiting"
  /\ percent' = percentAfterBatch(percent, batchJ, Len(batchCoords))
  /\ batchI' = batchI + batchSize
  /\ batchJ' = 0
  /\ batchPc' = IF batchI + batchSize < Len(batchCoords) THEN "batch" ELSE "done"
  /\ UNCHANGED <<coreVars, progVars, poolVars, geoVars, loadVars, normVars, fnVars,
                 batchCoords, madeMarkers, sinceYield>>

\* lines 1348 and 1403: progress is raised to 45 and addMarkersInBatches is
\* called; an empty list ends the loop at once
addMarkersInBatches ==
  /\ batchPc = "idle"
  /\ phase = "filtered"
  /\ phase' = "marking"
  /\ percent' = Max({percent, 45})
  /\ batchPc' = IF Len(batchCoords) > 0 THEN "batch" ELSE "done"
  /\ UNCHANGED <<geoTotal, geoDone, hasDestination, nDays, dayIdx>>
  /\ UNCHANGED <<coreVars, poolVars, geoVars, loadVars, normVars, fnVars,
                 batchCoords, batchI, batchJ, madeMarkers, sinceYield>>

\* the rendered places, told apart by their position in placeCoords
InitBatch ==
  /\ places = <<>>
  /\ routeSequence = <<>>
  /\ destination = FALSE
  /\ cfgRadiusKm = Undefined
  /\ InitRenderIdle
  /\ routeStrategy = "driving"
  /\ persistedState = NoSnapshot
  /\ InitMounted
  /\ InitNormIdle
  /\ InitFnIdle
  /\ batchPc = "idle"
  /\ \E n \in 0..MaxMarkers : batchCoords = [k \in 1..n |-> k]
  /\ batchI = 0
  /\ batchJ = 0
  /\ madeMarkers = <<>>
  /\ sinceYield = 0
  /\ percent \in {3, 33, 42}
  /\ phase = "filtered"
  /\ geoTotal = Len(batchCoords)
  /\ geoDone = Len(batchCoords)
  /\ hasDestination = (percent = 42)
  /\ nDays = 0
  /\ dayIdx = 0

NextBatch ==
  \/ addMarkersInBatches
  \/ batchMakesMarker
  \/ awaitFrame
  \/ frameCallback

SpecBatch == InitBatch /\ [][NextBatch]_vars

\* C24: during marker drawing the markers made so far are the first rendered
\* places in list order, one marker each, all of them once drawing is done,
\* and at most 24 markers are made between two yields of control.
C24_OneMarkerEachInBatches ==
  /\ sinceYield <= 24
  /\ Len(madeMarkers) <= Len(batchCoords)
  /\ madeMarkers = SubSeq(batchCoords, 1, Len(madeMarkers))
  /\ batchPc = "done" => madeMarkers = batchCoords

\* a list of more than two batches has been drawn
C24_Witness ==
  /\ batchPc = "done"
  /\ Len(batchCoords) > 2 * batchSize
  /\ Len(madeMarkers) = Len(batchCoords)

(***************************************************************************)
(* parseRouteSequence (routeParser.js 126-200) over the day sections of a  *)
(* plan text, and the day indices the map derives from its result          *)
(***************************************************************************)
MaxSections == 3

MaxDayNumber == 3

\* what extractPlaceNames / extractPlaceNamesLoose find in a section
SectionPlaces == {<<>>, <<Hall>>, <<Gate, Garden>>}

\* a day heading with its parsed number and the places found below it
DaySections == [day : 1..MaxDayNumber, places : SectionPlaces]

\* the plan text: its day sections in text order, and what the extraction
\* finds in the text as a whole
PlanTexts == [sections : {<<>>} \cup SeqsUpTo(DaySections, MaxSections),
              allPlaces : {<<>>, <<Hall>>}]

\* commitCurrent (lines 134-147): a section is kept only with places
committed(sections) == SelectSeq(sections, LAMBDA sec : Len(sec.places) > 0)

\* daySections.sort((a, b) => a.day - b.day), a stable sort
sortByDay(daySections) ==
  LET F[i \in 0..Len(daySections)] ==
        IF i = 0 THEN <<>>
        ELSE LET sec == daySections[i]
                 prev == F[i - 1]
                 k == Cardinality({j \in 1..Len(prev) : prev[j].day <= sec.day})
             IN SubSeq(prev, 1, k) \o <<sec>> \o SubSeq(prev, k + 1, Len(prev))
  IN F[Len(daySections)]

\* lines 126-200
parseRouteSequence(planText) ==
  LET daySections == committed(planText.sections)
      sorted == sortByDay(daySections)
  IN IF Len(daySections) = 0
     THEN IF Len(planText.allPlaces) > 0 THEN <<planText.allPlaces>> ELSE <<>>
     ELSE [i \in 1..Len(sorted) |-> sorted[i].places]

\* MapView.jsx 1410: the per-day loop draws routeSequence[dayIndex] as day
\* dayIndex; 393-402: a place with explicit day d gets day index d - 1.
\* For every kept section, the index of its route and of its dated markers.
dayIndices(planText) ==
  LET sorted == sortByDay(committed(planText.sections))
  IN [i \in 1..Len(sorted) |-> [day |-> sorted[i].day,
                               route |-> i - 1,
                               marker |-> sorted[i].day - 1]]

\* const parsedRoutes = parseRouteSequence(res)
ParseRoute ==
  /\ fnPc = "args"
  /\ fnArgs \in PlanTexts
  /\ fnResult' = parseRouteSequence(fnArgs)
  /\ fnPc' = "applied"
  /\ UNCHANGED <<coreVars, progVars, batchVars, poolVars, geoVars, loadVars, normVars, fnArgs, fnAgain>>

\* the map styles the routes and the dated markers of the parsed days
StyleParsedDays ==
  /\ fnPc = "applied"
  /\ fnAgain' = dayIndices(fnArgs)
  /\ fnPc' = "reapplied"
  /\ UNCHANGED <<coreVars, progVars, batchVars, poolVars, geoVars, loadVars, normVars, fnArgs, fnResult>>

InitParse ==
  /\ places = <<>>
  /\ routeSequence = <<>>
  /\ destination = FALSE
  /\ cfgRadiusKm = Undefined
  /\ InitRenderIdle
  /\ routeStrategy = "driving"
  /\ persistedState = NoSnapshot
  /\ InitMounted
  /\ InitNormIdle
  /\ InitProgIdle
  /\ InitBatchIdle
  /\ fnPc = "args"
  /\ fnArgs \in PlanTexts
  /\ fnResult = <<>>
  /\ fnAgain = <<>>

NextParse ==
  \/ ParseRoute
  \/ StyleParsedDays

SpecParse == InitParse /\ [][NextParse]_vars

\* the text has day sections with places
Dated(planText) ==
  \E k \in 1..Len(planText.sections) : Len(planText.sections[k].places) > 0

\* C25: position i (0-based) of the parsed route sequence holds the places
\* of the section of day i + 1, so the route of day d and a marker with
\* explicit day d get the same day index d - 1, also for texts that skip a
\* day number or have a day section without places.
C25_PositionIsDayIndex ==
  /\ (fnPc # "args" /\ Dated(fnArgs)) =>
       \A i \in 1..Len(fnResult) :
         \E k \in 1..Len(fnArgs.sections) :
           /\ fnArgs.sections[k].day = i
           /\ fnArgs.sections[k].places = fnResult[i]
  /\ fnPc = "reapplied" =>
       \A i \in 1..Len(fnAgain) :
         fnAgain[i].route = fnAgain[i].marker /\ fnAgain[i].route = fnAgain[i].day - 1

\* what holds instead: the kept sections appear in ascending day order
C25_SectionsInDayOrder ==
  fnPc = "reapplied" =>
    /\ Len(fnAgain) = Len(fnResult) \/ ~Dated(fnArgs)
    /\ \A i, j \in 1..Len(fnAgain) : i < j => fnAgain[i].day <= fnAgain[j].day

(***************************************************************************)
(* SpecAssign: the render cycle up to the day map, over places whose names *)
(* are equal, padded, suffixed, extended or generic (lines 389-485)        *)
(***************************************************************************)
MaxAssignPlaces == 3

\* the trailing word for "hotel", which normalizeName removes
Hotel == <<"U+9152", "U+5E97">>

\* a located place, k * 0.1 degree north of the centre
AssignPlace(n, d, k) ==
  [name |-> n, day |-> d, lng |-> Centre.lng, lat |-> Centre.lat + k * 1000000]

AssignPlacePool ==
  {AssignPlace(Hall, 0, 1),
   AssignPlace(Hall \o <<" ">>, 0, 2),
   AssignPlace(HallPark, 0, 3),
   AssignPlace(Hotel, 0, 4),
   AssignPlace(Hall, 2, 5),
   AssignPlace(Hall \o <<"x", "y">>, 0, 6)}

AssignSequences ==
  { << <<Hall>> >>,
    << <<Hall, Hall>>, <<Hall>> >>,
    << <<Hotel, Hall>> >>,
    << <<Garden>>, <<Hall>> >> }

InitAssign ==
  /\ places \in SeqsUpTo(AssignPlacePool, MaxAssignPlaces)
  /\ routeSequence \in AssignSequences
  /\ destination = FALSE
  /\ cfgRadiusKm = Undefined
  /\ InitRenderIdle
  /\ InitNormIdle
  /\ InitProgIdle
  /\ InitBatchIdle
  /\ InitFnIdle
  /\ routeStrategy = "driving"
  /\ persistedState = NoSnapshot
  /\ InitMounted

NextAssign ==
  \/ GeocodePhase
  \/ SkipRangeFilter
  \/ AssignExplicitDays
  \/ MatchTarget
  \/ NextSequenceDay
  \/ ReturnDayMap

SpecAssign == InitAssign /\ [][NextAssign]_vars

\* the first of the longest names among the places S
FirstLongest(allPlaces, S) ==
  Min({i \in S : \A j \in S : Len(allPlaces[j].name) <= Len(allPlaces[i].name)})

\* the first unconsumed place that matches the target loosely, 0 if none
FirstLoose(allPlaces, free, t) ==
  LET loose == {i \in free :
                  \/ Trim(allPlaces[i].name) = Trim(t)
                  \/ Includes(Trim(allPlaces[i].name), Trim(t))
                  \/ Includes(Trim(t), Trim(allPlaces[i].name))
                  \/ isNameMatch(allPlaces[i].name, t)}
  IN IF loose = {} THEN 0 ELSE Min(loose)

\* the place the statement names for target t: raw equality, then the
\* longest of the normalized-equal names, then the first loose match
StatedPick(allPlaces, assigned, t) ==
  LET free == (1..Len(allPlaces)) \ assigned
      rawEq == {i \in free : allPlaces[i].name = t}
      normEq == {i \in free : normalizeName(allPlaces[i].name) = normalizeName(t)}
  IN IF rawEq # {} THEN Min(rawEq)
     ELSE IF normEq # {} THEN FirstLongest(allPlaces, normEq)
     ELSE FirstLoose(allPlaces, free, t)

\* the same with the target skipped when its normalized name is empty and
\* equality taken on the trimmed names
TrimmedPick(allPlaces, assigned, t) ==
  LET free == (1..Len(allPlaces)) \ assigned
      normEq == {i \in free : normalizeName(allPlaces[i].name) = normalizeName(t)}
      trimEq == {i \in normEq : Trim(allPlaces[i].name) = Trim(t)}
  IN IF normalizeName(t) = <<>> THEN 0
     ELSE IF trimEq # {} THEN Min(trimEq)
     ELSE IF normEq # {} THEN FirstLongest(allPlaces, normEq)
     ELSE FirstLoose(allPlaces, free, t)

\* one target is handled and place e (0: none) is what it consumes
TargetConsumes(e) ==
  IF e = 0
  THEN assignedIndex' = assignedIndex /\ keyToDay' = keyToDay
  ELSE /\ assignedIndex' = assignedIndex \cup {e}
       /\ consumedLog' = Append(consumedLog, <<seqDay, seqPos, e>>)

\* C26 (as stated): every target, in sequence order, consumes the unconsumed
\* place whose raw name equals it, else the longest of the unconsumed places
\* with its normalized name, else the first unconsumed place that matches
\* loosely; with no such place nothing is consumed and no entry is added.
C26_PickAsStated ==
  [][(pc = "matching" /\ seqPos' = seqPos + 1) =>
       TargetConsumes(StatedPick(placeCoords, assignedIndex,
                                 routeSequence[seqDay + 1][seqPos]))]_vars

\* C26 (amended): a target whose normalized name is empty is skipped; every
\* other target consumes the first unconsumed place with its normalized name
\* whose trimmed name equals the trimmed target, else the first of the
\* longest such places, else the first unconsumed place that matches
\* loosely; with no such place nothing is consumed and no entry is added.
C26_PickTrimmedNonEmptyTarget ==
  [][(pc = "matching" /\ seqPos' = seqPos + 1) =>
       TargetConsumes(TrimmedPick(placeCoords, assignedIndex,
                                  routeSequence[seqDay + 1][seqPos]))]_vars

\* the second target of a day was matched loosely after the first one had
\* consumed the only place with its normalized name
C26_Witness ==
  /\ pc = "mapped"
  /\ Len(consumedLog) >= 2
  /\ \E a, b \in 1..Len(consumedLog) :
       /\ a < b
       /\ consumedLog[a][1] = consumedLog[b][1]
       /\ normalizeName(placeCoords[consumedLog[a][3]].name) = normalizeName(Hall)
       /\ normalizeName(placeCoords[consumedLog[b][3]].name) # normalizeName(Hall)

\* ---------------------------------------------------------------------
\* The progress reports of one render cycle (MapView.jsx, lines 1237-1698)
\* ---------------------------------------------------------------------

MaxProgressPlaces == 3

MaxRouteDays == 2

\* line 1257: base + Math.floor((done / Math.max(1, total)) * span)
geocodePercent(done, total) == 3 + (done * 30) \div Max({1, total})

\* line 1413: Math.min(98, 60 + Math.floor((dayIndex / Math.max(1, length)) * 35))
dayPercent(dayIndex, length) ==
  Min({98, 60 + (dayIndex * 35) \div Max({1, length})})

\* the rest of the batch state, which the reports outside the marker drawing
\* leave alone
drawingVars == <<batchPc, batchI, batchJ, madeMarkers, sinceYield>>

otherVars == <<coreVars, poolVars, geoVars, loadVars, normVars, fnVars>>

\* line 1237: the cycle reports 3 and starts geocoding
progressStarts ==
  /\ phase = "idle"
  /\ phase' = "geocoding"
  /\ percent' = 3
  /\ geoDone' = 0
  /\ UNCHANGED <<geoTotal, hasDestination, nDays, dayIdx, batchCoords>>
  /\ UNCHANGED <<drawingVars, otherVars>>

\* lines 1254-1259: onProgress after a place has settled
onProgress ==
  /\ phase = "geocoding"
  /\ geoDone < geoTotal
  /\ geoDone' = geoDone + 1
  /\ percent' = geocodePercent(geoDone + 1, geoTotal)
  /\ UNCHANGED <<phase, geoTotal, hasDestination, nDays, dayIdx, batchCoords>>
  /\ UNCHANGED <<drawingVars, otherVars>>

\* lines 1261-1264: pMap has resolved; the located places, deduplicated,
\* are what is left of places
geocodingResolves ==
  /\ phase = "geocoding"
  /\ geoDone = geoTotal
  /\ \E located \in 0..geoTotal : batchCoords' = [k \in 1..located |-> k]
  /\ phase' = "located"
  /\ UNCHANGED <<percent, geoTotal, geoDone, hasDestination, nDays, dayIdx>>
  /\ UNCHANGED <<drawingVars, otherVars>>

\* lines 1267-1270: with a destination the range filter reports at least 36
rangeFilterStarts ==
  /\ phase = "located"
  /\ hasDestination
  /\ percent' = Max({percent, 36})
  /\ phase' = "filtering"
  /\ UNCHANGED <<geoTotal, geoDone, hasDestination, nDays, dayIdx, batchCoords>>
  /\ UNCHANGED <<drawingVars, otherVars>>

\* lines 1271-1313: the filter keeps some of the places and reports at least
\* 42, or the destination cannot be located and the catch reports nothing
rangeFilterEnds ==
  /\ phase = "filtering"
  /\ \/ /\ percent' = Max({percent, 42})
        /\ \E kept \in 0..Len(batchCoords) : batchCoords' = [k \in 1..kept |-> k]
     \/ UNCHANGED <<percent, batchCoords>>
  /\ phase' = "filtered"
  /\ UNCHANGED <<geoTotal, geoDone, hasDestination, nDays, dayIdx>>
  /\ UNCHANGED <<drawingVars, otherVars>>

\* line 1267: without a destination there is no range filter
rangeFilterSkipped ==
  /\ phase = "located"
  /\ ~hasDestination
  /\ phase' = "filtered"
  /\ UNCHANGED <<percent, geoTotal, geoDone, hasDestination, nDays, dayIdx, batchCoords>>
  /\ UNCHANGED <<drawingVars, otherVars>>

\* lines 1408-1415: each day of the route sequence reports its own percent
routeDayStarts ==
  /\ phase \in {"marking", "routing"}
  /\ batchPc = "done"
  /\ nDays > 0
  /\ dayIdx < nDays
  /\ percent' = dayPercent(dayIdx, nDays)
  /\ dayIdx' = dayIdx + 1
  /\ phase' = "routing"
  /\ UNCHANGED <<geoTotal, geoDone, hasDestination, nDays, batchCoords>>
  /\ UNCHANGED <<drawingVars, otherVars>>

\* lines 1582-1585: without a route sequence two or more places are joined
\* by one route, which reports 80
undatedRouteStarts ==
  /\ phase = "marking"
  /\ batchPc = "done"
  /\ nDays = 0
  /\ Len(batchCoords) >= 2
  /\ percent' = 80
  /\ phase' = "routed"
  /\ UNCHANGED <<geoTotal, geoDone, hasDestination, nDays, dayIdx, batchCoords>>
  /\ UNCHANGED <<drawingVars, otherVars>>

\* the per-day loop has run through, or the single route has been planned,
\* or there was nothing to route
routesFinished ==
  \/ phase = "routing" /\ dayIdx = nDays
  \/ phase = "routed"
  \/ phase = "marking" /\ batchPc = "done" /\ nDays = 0 /\ Len(batchCoords) < 2

\* lines 1681-1688: with a place on the map the viewport fit reports at
\* least 96
viewportFit ==
  /\ routesFinished
  /\ percent' = IF Len(batchCoords) > 0 THEN Max({percent, 96}) ELSE percent
  /\ phase' = "fit"
  /\ UNCHANGED <<geoTotal, geoDone, hasDestination, nDays, dayIdx, batchCoords>>
  /\ UNCHANGED <<drawingVars, otherVars>>

\* lines 1689-1695: the snapshot is persisted and progress becomes inactive
\* at 100
progressEnds ==
  /\ phase = "fit"
  /\ percent' = 100
  /\ phase' = "ended"
  /\ UNCHANGED <<geoTotal, geoDone, hasDestination, nDays, dayIdx, batchCoords>>
  /\ UNCHANGED <<drawingVars, otherVars>>

\* lines 1696-1699: a step of the cycle throws and the catch makes progress
\* inactive at 0
progressFails ==
  /\ phase \notin {"idle", "ended"}
  /\ percent' = 0
  /\ phase' = "ended"
  /\ UNCHANGED <<geoTotal, geoDone, hasDestination, nDays, dayIdx, batchCoords>>
  /\ UNCHANGED <<drawingVars, otherVars>>

\* a mounted map before its first render cycle: progress is inactive at 0
\* (line 21)
InitProgress ==
  /\ places = <<>>
  /\ routeSequence = <<>>
  /\ destination = FALSE
  /\ cfgRadiusKm = Undefined
  /\ InitRenderIdle
  /\ routeStrategy = "driving"
  /\ persistedState = NoSnapshot
  /\ InitMounted
  /\ InitNormIdle
  /\ InitFnIdle
  /\ InitBatchIdle
  /\ phase = "idle"
  /\ geoTotal \in 1..MaxProgressPlaces
  /\ geoDone = 0
  /\ hasDestination \in BOOLEAN
  /\ nDays \in 0..MaxRouteDays
  /\ dayIdx = 0

NextProgress ==
  \/ progressStarts
  \/ onProgress
  \/ geocodingResolves
  \/ rangeFilterStarts
  \/ rangeFilterEnds
  \/ rangeFilterSkipped
  \/ addMarkersInBatches
  \/ batchMakesMarker
  \/ awaitFrame
  \/ frameCallback
  \/ routeDayStarts
  \/ undatedRouteStarts
  \/ viewportFit
  \/ progressEnds
  \/ progressFails

SpecProgress == InitProgress /\ [][NextProgress]_vars

\* C30: within one render cycle the reported percent never decreases from
\* one report to the next (geocoding, range filter, marker drawing, per-day
\* routing, viewport fit) until the cycle ends and progress becomes inactive.
C30_PercentNeverDecreases ==
  [][(phase # "idle" /\ phase' # "ended") => percent' >= percent]_vars

====
